---- MODULE Spec2Model ----
(***************************************************************************)
(* Telemetry pipeline of the sensor node (crates/core):                    *)
(*   sensors::task  -> sensors::QUEUE -> mqtt::publisher_loop              *)
(*                  -> mqtt::PUBLISH_QUEUE -> mqtt::mqtt_loop -> broker    *)
(* The tasks run on a cooperative executor; an action is the code a task   *)
(* runs between two suspension points (or one loop iteration of it).       *)
(* A Sample is represented by its timestamp, which the acquisition loop    *)
(* draws from a strictly increasing clock.                                 *)
(***************************************************************************)
EXTENDS Integers, Sequences, FiniteSets, TLC

\* ---------------------------------------------------------------- bounds
\* samples the acquisition loop produces in the pipeline specifications
MaxSamples == 2
\* samples the acquisition loop produces in the fault-free specification
MaxFlowSamples == 10
\* samples the acquisition loop produces in the outage specification
MaxOutageSamples == 66
\* samples the broker accepts after the outage in the outage specification
MaxOutagePublished == 6
\* consecutive connect failures before the broker accepts a connection
MaxFails == 7
\* schedule_publish errors in one run
MaxPubFails == 2
\* valid inbound commands in one run
MaxCmds == 1
\* valid inbound commands in a run that fills the Command Channel
MaxFloodCmds == 9
\* longest inbound payload handed to Command::try_from
MaxPayloadLen == 2
\* largest score handed to aiq_from_score
MaxScore == 320
\* humidity readings per percent handed to calculate
HumScale == 10
\* samples the acquisition loop produces in the acquisition specification
MaxAcqSamples == 3
\* seconds by which a measurement may overrun the acquisition period
MaxOverrunSecs == 1

\* ------------------------------------------------------ program constants
\* sensors.rs:17  Queue<Sample, 64>
QUEUE_N == 64
\* heapless::spsc::Queue<T, N> keeps one slot free to tell full from empty:
\* capacity() is N - 1
QueueCapacity == QUEUE_N - 1
\* sensors.rs:87  let mut skip: u8 = 10
SKIP_INIT == 10
\* mqtt.rs:34..36
PUBLISH_QUEUE_SIZE == 8
SUBSCRIBE_QUEUE_SIZE == 8
PUBLISH_BURST == 4
\* mqtt.rs:116, 179 and 137
BACKOFF_INIT == 1
BACKOFF_CAP == 30
\* mqtt.rs:37..38  IO_POLL_TIMEOUT_MS = 6_000, in seconds, and
\* CONNECT_TIMEOUT_SECS
IO_POLL_TIMEOUT_SECS == 6
CONNECT_TIMEOUT_SECS == 10
\* sensors.rs:168  Duration::from_secs(60), the acquisition period
PERIOD_SECS == 60
\* sensors.rs:129  Duration::from_secs(3), the timer of a warm-up cycle
WARMUP_SLEEP_SECS == 3
\* sensors.rs:52..83  the sensors the acquisition loop reads
Sensors == {"veml7700", "bme680", "bh1750", "sht40", "bmp390"}

Min(a, b) == IF a < b THEN a ELSE b

RECURSIVE Pow2(_)
Pow2(n) == IF n = 0 THEN 1 ELSE 2 * Pow2(n - 1)

SeqToSet(s) == {s[i] : i \in 1..Len(s)}

IsPrefix(s, t) == Len(s) <= Len(t) /\ SubSeq(t, 1, Len(s)) = s

\* ------------------------------------------------------------- the queue
\* mutant: a full queue overwrites its oldest entry
EnqueueOverwrite(q, s) ==
    IF Len(q) < QueueCapacity
    THEN [ok |-> TRUE, q |-> Append(q, s), rejected |-> 0]
    ELSE [ok |-> TRUE, q |-> Append(Tail(q), s), rejected |-> 0]

\* heapless::spsc::Queue::enqueue: Err(sample) when full, queue untouched
Enqueue(q, s) ==
    IF Len(q) < QueueCapacity
    THEN [ok |-> TRUE, q |-> Append(q, s), rejected |-> 0]
    ELSE [ok |-> FALSE, q |-> q, rejected |-> s]

\* mutant: dequeue hands out the newest entry
DequeueNewest(q) ==
    IF q = <<>>
    THEN [some |-> FALSE, val |-> 0, q |-> q]
    ELSE [some |-> TRUE, val |-> q[Len(q)], q |-> SubSeq(q, 1, Len(q) - 1)]

\* heapless::spsc::Queue::dequeue: None when empty, else the oldest entry
Dequeue(q) ==
    IF q = <<>>
    THEN [some |-> FALSE, val |-> 0, q |-> q]
    ELSE [some |-> TRUE, val |-> Head(q), q |-> Tail(q)]

\* mutant: the doubling without the cap
NextBackoffUncapped(b) == b * 2

\* mqtt.rs:137  (backoff * 2).min(30)
NextBackoff(b) == Min(b * 2, BACKOFF_CAP)

\* the events client.poll_io() / poll_io_with_timeout can hand to
\* handle_poll_result: the timeout (Ok(None)), each Event, and Err
BenignEvents == {"none", "connected", "subscribed", "subscribe_failed",
                 "unsubscribed", "published"}
FaultEvents == {"disconnected", "poll_err"}
PollEvents == BenignEvents \cup {"received"} \cup FaultEvents

\* mutant: only the first byte of the payload is looked at
CommandTryFromFirstByte(payload) ==
    IF Len(payload) = 0
    THEN [ok |-> FALSE, val |-> "CannotConvertPayload"]
    ELSE IF payload[1] = 48
         THEN [ok |-> TRUE, val |-> "RebootToReconfigure"]
         ELSE [ok |-> FALSE, val |-> "CannotConvertPayload"]

\* lib.rs:31..46  Command::try_from(publish::Publish): the payload is a
\* sequence of bytes
CommandTryFrom(payload) ==
    IF Len(payload) # 1
    THEN [ok |-> FALSE, val |-> "CannotConvertPayload"]
    ELSE IF payload[1] = 48
         THEN [ok |-> TRUE, val |-> "RebootToReconfigure"]
         ELSE [ok |-> FALSE, val |-> "CannotConvertPayload"]

\* mqtt.rs:32
COMMANDS_TOPIC_BASE == "sensors/command"

\* mqtt.rs:101..103  command_topic: "{COMMANDS_TOPIC_BASE}/{client_id}", kept
\* as the pair of its two parts
CommandTopic(client_id) == <<COMMANDS_TOPIC_BASE, client_id>>

\* settings.mqtt_client_id of this device, and the client ids in use
ClientId == "node-1"
ClientIds == {"node-1", "node-2"}

\* the publishes the broker may deliver: to this device's command topic and
\* to another device's; with an empty payload, the command byte, and
\* another byte
InboundTopics == {CommandTopic(c) : c \in ClientIds}
InboundPayloads == {<<>>, <<48>>, <<49>>}
InboundMsgs == [topic : InboundTopics, payload : InboundPayloads]

\* no inbound publish
NoMsg == [topic |-> <<>>, payload |-> <<>>]

\* mqtt.rs:304..323  the arm of handle_poll_result an inbound publish takes
ReceivedEvents == {"received_command", "received_malformed", "received_other_topic"}
ReceivedKind(m) ==
    IF m.topic = CommandTopic(ClientId)
    THEN IF CommandTryFrom(m.payload).ok
         THEN "received_command"
         ELSE "received_malformed"
    ELSE "received_other_topic"

\* mutant: Event::Disconnected is only logged
HandlePollResultKeepsSession(event) == event # "poll_err"

\* mqtt.rs:293..335  handle_poll_result: false only for Event::Disconnected
\* and Err(_)
HandlePollResult(event) == event \notin {"disconnected", "poll_err"}

\* mutant: the topic of the inbound publish is not compared
PollCommandsAnyTopic(event, m, q) ==
    IF /\ event = "received"
       /\ CommandTryFrom(m.payload).ok
       /\ Len(q) < SUBSCRIBE_QUEUE_SIZE
    THEN Append(q, CommandTryFrom(m.payload).val)
    ELSE q

\* mqtt.rs:304..316  the command handle_poll_result pushes with try_send: the
\* topic is the command topic, the payload parses, the channel has room
PollCommands(event, m, q) ==
    IF /\ event = "received"
       /\ m.topic = CommandTopic(ClientId)
       /\ CommandTryFrom(m.payload).ok
       /\ Len(q) < SUBSCRIBE_QUEUE_SIZE
    THEN Append(q, CommandTryFrom(m.payload).val)
    ELSE q

\* ----------------------------------------------------------- settings
\* config.rs:6..11
WIFI_SSID_KEY == "wifi.ssid"
WIFI_PASSWORD_KEY == "wifi.password"
MQTT_BROKER_KEY == "mqtt.broker"
MQTT_CLIENT_ID_KEY == "mqtt.client_id"
MQTT_TOPIC_KEY == "mqtt.topic"
SYSTEM_REBOOT_TO_RECONFIGURE == "system.reconfig"

StringKeys == {WIFI_SSID_KEY, WIFI_PASSWORD_KEY, MQTT_BROKER_KEY,
               MQTT_CLIENT_ID_KEY, MQTT_TOPIC_KEY}
Keys == StringKeys \cup {SYSTEM_REBOOT_TO_RECONFIGURE}

\* Option<T>: None is the empty sequence, Some(x) the sequence <<x>>
None == <<>>
Some(x) == <<x>>
UnwrapOr(o, d) == IF o = None THEN d ELSE o[1]

\* A string is the sequence of its code points (below 2048 here), a stored
\* value the sequence of its bytes.
\* str::as_bytes: the UTF-8 encoding, one byte below 128, else two
RECURSIVE Utf8Encode(_)
Utf8Encode(str) ==
    IF str = <<>> THEN <<>>
    ELSE (IF Head(str) < 128
          THEN <<Head(str)>>
          ELSE <<192 + (Head(str) \div 64), 128 + (Head(str) % 64)>>)
         \o Utf8Encode(Tail(str))

\* core::str::from_utf8 on one- and two-byte sequences: a lead byte below
\* 128 stands alone, a lead byte 0xC2..0xDF takes one continuation byte
\* 0x80..0xBF, anything else is a Utf8Error
RECURSIVE Utf8Decode(_)
Utf8Decode(bytes) ==
    IF bytes = <<>> THEN [ok |-> TRUE, val |-> <<>>]
    ELSE IF bytes[1] < 128
         THEN LET rest == Utf8Decode(Tail(bytes))
              IN [ok |-> rest.ok, val |-> <<bytes[1]>> \o rest.val]
         ELSE IF /\ bytes[1] \in 194..223
                 /\ Len(bytes) >= 2
                 /\ bytes[2] \in 128..191
              THEN LET rest == Utf8Decode(Tail(Tail(bytes)))
                   IN [ok |-> rest.ok,
                       val |-> <<(bytes[1] - 192) * 64 + (bytes[2] - 128)>> \o rest.val]
              ELSE [ok |-> FALSE, val |-> <<>>]

\* kv_storage.rs:258..262  write_bool stores the byte 1 or 0
WriteBool(value) == <<IF value THEN 1 ELSE 0>>

\* kv_storage.rs:239..242  read_bool: a one-byte buffer, zeroed, then
\* buf[0] != 0; a missing key is None
ReadBool(db, key) ==
    IF db[key] = None THEN [ok |-> TRUE, val |-> None]
    ELSE IF Len(db[key][1]) > 1 THEN [ok |-> FALSE, val |-> None]
    ELSE IF db[key][1] = <<>> THEN [ok |-> TRUE, val |-> Some(FALSE)]
    ELSE [ok |-> TRUE, val |-> Some(db[key][1][1] # 0)]

\* kv_storage.rs:264..272  write_string stores value.as_bytes()
WriteString(value) == Utf8Encode(value)

\* kv_storage.rs:244..256  read_string: from_utf8 of the stored bytes, then
\* String::from_str; a missing key is None
ReadString(db, key) ==
    IF db[key] = None THEN [ok |-> TRUE, val |-> None]
    ELSE LET d == Utf8Decode(db[key][1])
         IN IF d.ok THEN [ok |-> TRUE, val |-> Some(d.val)]
            ELSE [ok |-> FALSE, val |-> None]

\* the parts of a byte string between the dots (byte 46)
RECURSIVE SplitDots(_)
SplitDots(bytes) ==
    IF \A i \in 1..Len(bytes) : bytes[i] # 46 THEN <<bytes>>
    ELSE LET i == CHOOSE j \in 1..Len(bytes) :
                    bytes[j] = 46 /\ \A h \in 1..(j - 1) : bytes[h] # 46
         IN <<SubSeq(bytes, 1, i - 1)>> \o SplitDots(SubSeq(bytes, i + 1, Len(bytes)))

\* the number a string of decimal digits stands for
RECURSIVE Decimal(_)
Decimal(digits) ==
    IF digits = <<>> THEN 0
    ELSE 10 * Decimal(SubSeq(digits, 1, Len(digits) - 1)) + (digits[Len(digits)] - 48)

\* core::net::Ipv4Addr::parse_ascii, called at main.rs:228: at most 15
\* bytes, four numbers with dots between them and nothing else, each of one
\* to three decimal digits, without a leading zero in front of further
\* digits, and at most 255
ParseIpv4(bytes) ==
    LET parts == SplitDots(bytes)
        octet(part) ==
            /\ Len(part) \in 1..3
            /\ \A i \in 1..Len(part) : part[i] \in 48..57
            /\ ~(Len(part) > 1 /\ part[1] = 48)
            /\ Decimal(part) <= 255
    IN IF /\ Len(bytes) <= 15
          /\ Len(parts) = 4
          /\ \A i \in 1..4 : octet(parts[i])
       THEN [ok |-> TRUE, val |-> [i \in 1..4 |-> Decimal(parts[i])]]
       ELSE [ok |-> FALSE, val |-> <<>>]

\* mutant: mqtt_topic is not looked at
IsCompleteNoTopic(o) ==
    /\ o.wifi_ssid # None
    /\ o.wifi_password # None
    /\ o.mqtt_broker # None
    /\ o.mqtt_client_id # None

\* config.rs:27..33  OptionalSettings::is_complete
IsComplete(o) ==
    /\ o.wifi_ssid # None
    /\ o.wifi_password # None
    /\ o.mqtt_broker # None
    /\ o.mqtt_client_id # None
    /\ o.mqtt_topic # None

\* config.rs:22..24  OptionalSettings::needs_reconfiguration
NeedsReconfiguration(o) ==
    ~IsComplete(o) \/ UnwrapOr(o.reboot_to_reconfigure, FALSE)

\* mutant: the if-let chain also asks for the stored flag
TransmuteChainNeedsFlag(e) ==
    IF e.tag = "Optional"
    THEN IF ~IsComplete(e.s)
         THEN e
         ELSE IF /\ e.s.wifi_ssid # None
                 /\ e.s.wifi_password # None
                 /\ e.s.mqtt_broker # None
                 /\ e.s.mqtt_client_id # None
                 /\ e.s.mqtt_topic # None
                 /\ e.s.reboot_to_reconfigure # None
              THEN [tag |-> "FilledIn",
                    s |-> [wifi_ssid |-> e.s.wifi_ssid[1],
                           wifi_password |-> e.s.wifi_password[1],
                           mqtt_broker |-> e.s.mqtt_broker[1],
                           mqtt_client_id |-> e.s.mqtt_client_id[1],
                           mqtt_topic |-> e.s.mqtt_topic[1],
                           reboot_to_reconfigure |->
                               UnwrapOr(e.s.reboot_to_reconfigure, FALSE)]]
              ELSE [tag |-> "unreachable", s |-> e.s]
    ELSE [tag |-> "Optional",
          s |-> [wifi_ssid |-> Some(e.s.wifi_ssid),
                 wifi_password |-> Some(e.s.wifi_password),
                 mqtt_broker |-> Some(e.s.mqtt_broker),
                 mqtt_client_id |-> Some(e.s.mqtt_client_id),
                 mqtt_topic |-> Some(e.s.mqtt_topic),
                 reboot_to_reconfigure |-> Some(e.s.reboot_to_reconfigure)]]

\* config.rs:52..86  SettingsEnum::transmute.  An incomplete Optional is
\* returned as it is; a complete one goes through the if-let chain, and
\* unreachable!() follows the chain.
Transmute(e) ==
    IF e.tag = "Optional"
    THEN IF ~IsComplete(e.s)
         THEN e
         ELSE IF /\ e.s.wifi_ssid # None
                 /\ e.s.wifi_password # None
                 /\ e.s.mqtt_broker # None
                 /\ e.s.mqtt_client_id # None
                 /\ e.s.mqtt_topic # None
              THEN [tag |-> "FilledIn",
                    s |-> [wifi_ssid |-> e.s.wifi_ssid[1],
                           wifi_password |-> e.s.wifi_password[1],
                           mqtt_broker |-> e.s.mqtt_broker[1],
                           mqtt_client_id |-> e.s.mqtt_client_id[1],
                           mqtt_topic |-> e.s.mqtt_topic[1],
                           reboot_to_reconfigure |->
                               UnwrapOr(e.s.reboot_to_reconfigure, FALSE)]]
              ELSE [tag |-> "unreachable", s |-> e.s]
    ELSE [tag |-> "Optional",
          s |-> [wifi_ssid |-> Some(e.s.wifi_ssid),
                 wifi_password |-> Some(e.s.wifi_password),
                 mqtt_broker |-> Some(e.s.mqtt_broker),
                 mqtt_client_id |-> Some(e.s.mqtt_client_id),
                 mqtt_topic |-> Some(e.s.mqtt_topic),
                 reboot_to_reconfigure |-> Some(e.s.reboot_to_reconfigure)]]

\* config.rs:103..118  get_initial_settings: six reads, each followed by
\* `?`, then transmute
GetInitialSettings(db) ==
    LET wifi_ssid == ReadString(db, WIFI_SSID_KEY)
        wifi_password == ReadString(db, WIFI_PASSWORD_KEY)
        mqtt_broker == ReadString(db, MQTT_BROKER_KEY)
        mqtt_client_id == ReadString(db, MQTT_CLIENT_ID_KEY)
        mqtt_topic == ReadString(db, MQTT_TOPIC_KEY)
        reboot_to_reconfigure == ReadBool(db, SYSTEM_REBOOT_TO_RECONFIGURE)
    IN IF /\ wifi_ssid.ok
          /\ wifi_password.ok
          /\ mqtt_broker.ok
          /\ mqtt_client_id.ok
          /\ mqtt_topic.ok
          /\ reboot_to_reconfigure.ok
       THEN [ok |-> TRUE,
             val |-> Transmute(
                 [tag |-> "Optional",
                  s |-> [wifi_ssid |-> wifi_ssid.val,
                         wifi_password |-> wifi_password.val,
                         mqtt_broker |-> mqtt_broker.val,
                         mqtt_client_id |-> mqtt_client_id.val,
                         mqtt_topic |-> mqtt_topic.val,
                         reboot_to_reconfigure |-> reboot_to_reconfigure.val]])]
       ELSE [ok |-> FALSE, val |-> [tag |-> "error", s |-> <<>>]]

\* mutant: complete settings always start the telemetry path
BootPathIgnoresFlag(settings) ==
    IF settings.tag = "Optional" THEN "provisioning"
    ELSE IF settings.tag = "FilledIn" THEN "telemetry"
    ELSE "panic"

\* main.rs:134..176  the path main takes for the loaded settings: init_start
\* (provisioning) or run (telemetry); unreachable!() in transmute panics
BootPath(settings) ==
    IF settings.tag = "Optional" THEN "provisioning"
    ELSE IF settings.tag = "FilledIn"
         THEN IF settings.s.reboot_to_reconfigure
              THEN "provisioning"
              ELSE "telemetry"
         ELSE "panic"

\* the order of the keys as byte strings; ekv takes the writes of one
\* transaction in ascending key order only
KeyRank(k) ==
    CASE k = MQTT_BROKER_KEY -> 1
      [] k = MQTT_CLIENT_ID_KEY -> 2
      [] k = MQTT_TOPIC_KEY -> 3
      [] k = SYSTEM_REBOOT_TO_RECONFIGURE -> 4
      [] k = WIFI_PASSWORD_KEY -> 5
      [] k = WIFI_SSID_KEY -> 6

\* the first write of a transaction that ekv refuses as not sorted, 0 if none
FirstUnsorted(writes) ==
    LET bad == {i \in 2..Len(writes) :
                    KeyRank(writes[i][1]) <= KeyRank(writes[i - 1][1])}
    IN IF bad = {} THEN 0 ELSE CHOOSE i \in bad : \A j \in bad : i <= j

\* the store after the writes 1..n of a transaction have taken effect
ApplyWrites(db, writes, n) ==
    [k \in Keys |->
        LET hits == {i \in 1..n : writes[i][1] = k}
        IN IF hits = {} THEN db[k]
           ELSE Some(writes[CHOOSE i \in hits : \A j \in hits : j <= i][2])]

\* mutant: every write takes effect at once, the commit is a no-op
TransactionWriteThrough(db, writes, failAt) ==
    LET unsorted == FirstUnsorted(writes)
        stop == IF unsorted # 0 /\ (failAt = 0 \/ unsorted < failAt)
                THEN unsorted ELSE failAt
    IN IF stop = 0
       THEN [ok |-> TRUE, db |-> ApplyWrites(db, writes, Len(writes))]
       ELSE [ok |-> FALSE, db |-> ApplyWrites(db, writes, Min(stop - 1, Len(writes)))]

\* config.rs:124..138, 144..146  a write transaction: the writes in program
\* order, each followed by `?`, then commit()?.  failAt is the step the
\* flash fails at: 0 for none, i for the i-th write, Len(writes) + 1 for the
\* commit.  A transaction that is dropped before its commit, or whose commit
\* fails, leaves the store as it was.
Transaction(db, writes, failAt) ==
    LET unsorted == FirstUnsorted(writes)
        stop == IF unsorted # 0 /\ (failAt = 0 \/ unsorted < failAt)
                THEN unsorted ELSE failAt
    IN IF stop = 0
       THEN [ok |-> TRUE, db |-> ApplyWrites(db, writes, Len(writes))]
       ELSE [ok |-> FALSE, db |-> db]

\* config.rs:126..136  the six writes of save_settings, in program order
SaveWrites(settings) ==
    << <<MQTT_BROKER_KEY, WriteString(settings.mqtt_broker)>>,
       <<MQTT_CLIENT_ID_KEY, WriteString(settings.mqtt_client_id)>>,
       <<MQTT_TOPIC_KEY, WriteString(settings.mqtt_topic)>>,
       <<SYSTEM_REBOOT_TO_RECONFIGURE, WriteBool(settings.reboot_to_reconfigure)>>,
       <<WIFI_PASSWORD_KEY, WriteString(settings.wifi_password)>>,
       <<WIFI_SSID_KEY, WriteString(settings.wifi_ssid)>> >>

\* config.rs:120..141  save_settings
SaveSettings(db, settings, failAt) ==
    Transaction(db, SaveWrites(settings), failAt)

\* mutant: the flag is written but the transaction is never committed
SetRebootUncommitted(db, failAt) ==
    [ok |-> failAt = 0, db |-> db]

\* config.rs:143..147  set_reboot up to the commit; software_reset follows
\* when the result is Ok
SetReboot(db, failAt) ==
    Transaction(db, << <<SYSTEM_REBOOT_TO_RECONFIGURE, WriteBool(TRUE)>> >>, failAt)

\* -------------------------------------------------------- air quality
\* mutant: the first bucket takes the score 50 as well
AiqFromScoreInclusive(score) ==
    IF score \in 0..50 THEN "Good"
    ELSE IF score \in 50..149 THEN "Moderate"
    ELSE IF score \in 150..174 THEN "UnhealthyForSensitiveGroups"
    ELSE IF score \in 175..199 THEN "Unhealthy"
    ELSE IF score \in 200..299 THEN "VeryUnhealthy"
    ELSE "Hazardous"

\* air_quality.rs:11..20  aiq_from_score: the match arms 0..50, 50..150,
\* 150..175, 175..200, 200..300 and _
AiqFromScore(score) ==
    IF score \in 0..49 THEN "Good"
    ELSE IF score \in 50..149 THEN "Moderate"
    ELSE IF score \in 150..174 THEN "UnhealthyForSensitiveGroups"
    ELSE IF score \in 175..199 THEN "Unhealthy"
    ELSE IF score \in 200..299 THEN "VeryUnhealthy"
    ELSE "Hazardous"

\* air_quality.rs:23, 31..33
HUM_REF == 40
GAS_LOWER_LIMIT == 5000
GAS_UPPER_LIMIT == 50000
GAS_LIMITS_DIFF == GAS_UPPER_LIMIT - GAS_LOWER_LIMIT

\* the largest integer of the model checker; a value that stays at or below
\* it is a u32 that has not overflowed
I32_MAX == 2147483647
InU32(x) == x >= 0 /\ x <= I32_MAX

\* A humidity is a whole number of 1/HumScale percent.  `(a / b) as u32` of
\* two non-negative floats keeps the integer part of the quotient.
FloatDivAsU32(a, b) == a \div b

\* A gas resistance is a u32 in two 16-bit halves, gas = hi * 65536 + lo; the
\* match in calculate only compares it with bounds below 65536.
GasBelow(gas, bound) == gas.hi = 0 /\ gas.lo < bound

\* mutant: the reference of the lowest band is 0
CalculateLowRefZero(humidity, gas) ==
    LET cast == IF humidity < 38 * HumScale
                THEN FloatDivAsU32(humidity, HUM_REF * HumScale)
                ELSE FloatDivAsU32(humidity, (100 - HUM_REF) * HumScale)
        hum_score == IF humidity >= 0 /\ humidity < 38 * HumScale THEN 25 * cast
                     ELSE IF humidity >= 38 * HumScale /\ humidity <= 42 * HumScale THEN 25
                     ELSE 41 + 25 * cast
        gas_ref == IF GasBelow(gas, GAS_LOWER_LIMIT) THEN 0
                   ELSE IF GasBelow(gas, GAS_UPPER_LIMIT) THEN GAS_UPPER_LIMIT \div 2
                   ELSE GAS_UPPER_LIMIT
        diff == gas_ref - GAS_LOWER_LIMIT
        prod == 75 * diff
        gas_score == prod \div GAS_LIMITS_DIFF
        score == hum_score + gas_score
    IN [ok |-> /\ InU32(25 * cast) /\ InU32(hum_score) /\ InU32(diff)
               /\ InU32(prod) /\ GAS_LIMITS_DIFF # 0 /\ InU32(score),
        hum_score |-> hum_score,
        gas_score |-> gas_score,
        score |-> score,
        category |-> AiqFromScore(score)]

\* air_quality.rs:22..46  calculate.  The cast binds tighter than the
\* multiplication: 25 * ((humidity / HUM_REF) as u32).  ok is false when an
\* unsigned operation leaves the u32 range or the divisor is 0.
Calculate(humidity, gas) ==
    LET cast == IF humidity < 38 * HumScale
                THEN FloatDivAsU32(humidity, HUM_REF * HumScale)
                ELSE FloatDivAsU32(humidity, (100 - HUM_REF) * HumScale)
        hum_score == IF humidity >= 0 /\ humidity < 38 * HumScale THEN 25 * cast
                     ELSE IF humidity >= 38 * HumScale /\ humidity <= 42 * HumScale THEN 25
                     ELSE 41 + 25 * cast
        gas_ref == IF GasBelow(gas, GAS_LOWER_LIMIT) THEN GAS_LOWER_LIMIT
                   ELSE IF GasBelow(gas, GAS_UPPER_LIMIT) THEN GAS_UPPER_LIMIT \div 2
                   ELSE GAS_UPPER_LIMIT
        diff == gas_ref - GAS_LOWER_LIMIT
        prod == 75 * diff
        gas_score == prod \div GAS_LIMITS_DIFF
        score == hum_score + gas_score
    IN [ok |-> /\ InU32(25 * cast) /\ InU32(hum_score) /\ InU32(diff)
               /\ InU32(prod) /\ GAS_LIMITS_DIFF # 0 /\ InU32(score),
        hum_score |-> hum_score,
        gas_score |-> gas_score,
        score |-> score,
        category |-> AiqFromScore(score)]

\* ------------------------------------------------------------ net_time
\* A u32 of net_time is kept in two 16-bit halves, hi * 65536 + lo.
\* u32::from_be_bytes of four bytes, the first the most significant
U32FromBeBytes(b) == [hi |-> b[1] * 256 + b[2], lo |-> b[3] * 256 + b[4]]

U32Less(a, b) == a.hi < b.hi \/ (a.hi = b.hi /\ a.lo < b.lo)

\* a - b modulo 2^32
U32WrappingSub(a, b) ==
    LET borrow == IF a.lo < b.lo THEN 1 ELSE 0
    IN [hi |-> (a.hi - b.hi - borrow + 65536) % 65536,
        lo |-> (a.lo - b.lo + 65536) % 65536]

\* net_time.rs:131  2_208_988_800 = 33706 * 65536 + 32384
NTP_UNIX_OFFSET == [hi |-> 33706, lo |-> 32384]

U32Zero == [hi |-> 0, lo |-> 0]

\* net_time.rs:108..133  sync_time from the reply on: `size` bytes were
\* received into recv_buf (48 bytes, zeroed before); a reply below 48 bytes
\* is Err(Other); else bytes 40..43 are the NTP seconds and the result is
\* secs - NTP_UNIX_OFFSET, a u32 subtraction: below the offset it panics in
\* a build with overflow checks and wraps in one without
SyncTime(size, recv_buf, checks) ==
    IF size < 48
    THEN [tag |-> "Err", underflow |-> FALSE, val |-> U32Zero]
    ELSE LET secs == U32FromBeBytes(SubSeq(recv_buf, 41, 44))
         IN IF U32Less(secs, NTP_UNIX_OFFSET)
            THEN IF checks
                 THEN [tag |-> "panic", underflow |-> TRUE, val |-> U32Zero]
                 ELSE [tag |-> "Ok", underflow |-> TRUE,
                       val |-> U32WrappingSub(secs, NTP_UNIX_OFFSET)]
            ELSE [tag |-> "Ok", underflow |-> FALSE,
                  val |-> U32WrappingSub(secs, NTP_UNIX_OFFSET)]

\* net_time.rs:26..30, 56..63  sync_task: Ok(secs) is stored with the
\* uptime by TimeState::set, Err changes nothing
SyncTask(state, uptime, size, recv_buf, checks) ==
    LET r == SyncTime(size, recv_buf, checks)
    IN [result |-> r,
        state |-> IF r.tag = "Ok"
                  THEN [unit_at_sync |-> r.val, uptime_at_sync |-> uptime]
                  ELSE state]

\* ------------------------------------------------------------- payload
\* sensors.rs:30..40  the optional fields of Sample
SampleFields == {"temperature", "pressure", "humidity", "hum_sht40",
                 "temp_sht40", "press_bmp390", "temp_bmp390", "gas_ohm",
                 "lux_veml7700", "lux_bh1750", "aiq_score"}

\* mqtt.rs:342..368  the keys build_payload writes, in program order, each
\* with the field of Sample it reads (temp_bme680, press_bme680 and
\* hum_bme680 are the BME680 readings temperature, pressure and humidity)
PayloadKeys ==
    << <<"temp_bme680", "temperature">>,
       <<"press_bme680", "pressure">>,
       <<"hum_bme680", "humidity">>,
       <<"lux_bh1750", "lux_bh1750">>,
       <<"lux_veml7700", "lux_veml7700">>,
       <<"temp_bmp390", "temp_bmp390">>,
       <<"press_bmp390", "press_bmp390">>,
       <<"hum_sht40", "hum_sht40">>,
       <<"temp_sht40", "temp_sht40">> >>

PresentEntry(e) == e[2] # None

\* mqtt.rs:337..371  build_payload: the object as the sequence of its
\* <<key, value>> members: "ts" first, then `if let Some(v)` per key
BuildPayload(sample) ==
    LET entries == [i \in 1..Len(PayloadKeys) |->
                        <<PayloadKeys[i][1], sample[PayloadKeys[i][2]]>>]
        present == SelectSeq(entries, PresentEntry)
    IN <<<<"ts", sample.timestamp>>>> \o
       [i \in 1..Len(present) |-> <<present[i][1], present[i][2][1]>>]

VARIABLES
    skip,       \* sensors::task: warm-up cycles still to skip
    clock,      \* timestamp the next Sample gets
    queue,      \* sensors::QUEUE
    HAS_DATA,   \* sensors::HAS_DATA
    ppc,        \* publisher_loop position
    held,       \* sample publisher_loop holds while send() awaits capacity
    chan,       \* mqtt::PUBLISH_QUEUE
    cmdq,       \* mqtt::SUBSCRIBE_QUEUE
    mpc,        \* mqtt_loop position
    backoff,    \* mqtt_loop: backoff
    burst,      \* mqtt_loop: index of the for loop over 0..PUBLISH_BURST
    UP,         \* wifi::UP
    READY,      \* mqtt::READY
    DOWN,       \* mqtt::DOWN
    sig,        \* history: which of READY and DOWN was signalled last
    ev,         \* history: the event mqtt_loop handled last
    msg,        \* history: the inbound publish the last mqtt_loop step handled
    fails,      \* history: connect failures since start-up / last CONNACK
    delay,      \* history: seconds passed to the last backoff timer
    enqLog,     \* history: samples enqueued successfully, in order
    deqLog,     \* history: samples dequeue returned, in order
    sent,       \* history: samples publisher_loop put into the publish
                \* channel, in order
    dropped,    \* history: samples the acquisition loop could not enqueue
    published,  \* history: samples schedule_publish accepted, in order
    lost,       \* history: samples publish_sample could not push back
    requeued,   \* history: samples publish_sample pushed back
    pubFails,   \* history: number of schedule_publish errors
    sessionPub, \* history: samples published since the last CONNACK, in order
    wakePub,    \* history: samples published since the Connected loop last woke
                \* on the publish channel, 0 once it has gone back to the
                \* protocol timers and I/O
    waited,     \* seconds since wait_for_connect set its deadline
    lock,       \* the task that holds the lock of sensors::QUEUE while suspended
    took,       \* history: seconds the last acquisition cycle measured for
    sleep,      \* history: seconds passed to the last timer of sensors::task
    sensed,     \* history: the sensors whose readings the last Sample holds
    cmds,       \* history: number of valid inbound commands
    phase,      \* what the device runs: boot, provisioning, telemetry, panic
    store,      \* the Settings Store: key -> stored bytes, <<>> if absent
    NEED_REBOOT,\* system::NEED_REBOOT
    call,       \* history: the function called last, and its argument
    ret,        \* history: what it returned
    kv          \* history: the last kv_storage::init: what mount returned,
                \* the number of format calls, and whether init returned Ok

vars == <<skip, clock, queue, HAS_DATA, ppc, held, chan, cmdq, mpc, backoff,
          burst, UP, READY, DOWN, ev, fails, delay, enqLog, deqLog, dropped,
          published, lost, requeued, pubFails, cmds, msg, sessionPub,
          phase, store, NEED_REBOOT, call, ret, wakePub, waited, lock, took,
          sleep, sensed, kv, sent, sig>>

acqVars == <<skip, clock, dropped, took, sleep, sensed>>
pubVars == <<ppc, held, deqLog, sent>>
mqttVars == <<mpc, backoff, burst, READY, DOWN, sig, ev, msg, fails, delay, wakePub,
             waited>>
sendVars == <<published, lost, requeued, pubFails, sessionPub>>
cmdVars == <<cmdq, cmds>>
sysVars == <<phase, store, NEED_REBOOT, call, ret, kv>>
pipeVars == <<queue, HAS_DATA, chan, enqLog, UP, lock,
              acqVars, pubVars, mqttVars, sendVars, cmdVars>>

\* the values a settings field takes in the store at start-up, as strings
StoredValue(k) ==
    CASE k = WIFI_SSID_KEY -> <<115>>
      [] k = WIFI_PASSWORD_KEY -> <<112>>
      [] k = MQTT_BROKER_KEY -> <<49, 46, 50, 46, 51, 46, 52>>
      [] k = MQTT_CLIENT_ID_KEY -> <<110>>
      [] k = MQTT_TOPIC_KEY -> <<116>>

\* a broker address that is no IPv4 address: "1.2.3.256"
BadBroker == <<49, 46, 50, 46, 51, 46, 50, 53, 54>>

\* the stores the device may start up with: every string key missing or
\* written by write_string (the broker address as an IPv4 address or not),
\* the flag missing or written by write_bool
Stores ==
    {db \in [Keys -> {None} \cup {Some(WriteString(StoredValue(k))) : k \in StringKeys}
                            \cup {Some(WriteString(BadBroker))}
                            \cup {Some(WriteBool(b)) : b \in BOOLEAN}] :
        /\ \A k \in StringKeys \ {MQTT_BROKER_KEY} :
              db[k] \in {None, Some(WriteString(StoredValue(k)))}
        /\ db[MQTT_BROKER_KEY] \in {None, Some(WriteString(StoredValue(MQTT_BROKER_KEY))),
                                    Some(WriteString(BadBroker))}
        /\ db[SYSTEM_REBOOT_TO_RECONFIGURE] \in {None} \cup {Some(WriteBool(b)) : b \in BOOLEAN}}

\* the store of a provisioned device
ProvisionedStore ==
    [k \in Keys |-> IF k \in StringKeys THEN Some(WriteString(StoredValue(k)))
                    ELSE Some(WriteBool(FALSE))]

\* the settings the form of the provisioning page may post
FormSettings ==
    [wifi_ssid : {<<115>>, <<233, 115>>},
     wifi_password : {<<112, 119>>},
     mqtt_broker : {<<50, 46, 50, 46, 50, 46, 50>>, <<50>>},
     mqtt_client_id : {<<110>>},
     mqtt_topic : {<<116, 50>>},
     reboot_to_reconfigure : BOOLEAN]

NoCall == [fn |-> "none", arg |-> <<>>]
NoRet == [fn |-> "none", val |-> <<>>]

\* the tasks of the telemetry path right after run() has spawned them
InitPipeline ==
    /\ skip = SKIP_INIT
    /\ clock = 1
    /\ queue = <<>>
    /\ HAS_DATA = FALSE
    /\ ppc = "wait"
    /\ held = 0
    /\ chan = <<>>
    /\ cmdq = <<>>
    /\ mpc = "wifi_wait"
    /\ backoff = BACKOFF_INIT
    /\ burst = 0
    /\ UP = FALSE
    /\ READY = FALSE
    /\ DOWN = FALSE
    /\ sig = "none"
    /\ ev = "start"
    /\ fails = 0
    /\ delay = 0
    /\ enqLog = <<>>
    /\ deqLog = <<>>
    /\ sent = <<>>
    /\ dropped = <<>>
    /\ published = <<>>
    /\ lost = <<>>
    /\ requeued = <<>>
    /\ pubFails = 0
    /\ cmds = 0
    /\ msg = NoMsg
    /\ sessionPub = <<>>
    /\ NEED_REBOOT = FALSE
    /\ ret = NoRet
    /\ wakePub = 0
    /\ waited = 0
    /\ lock = "free"
    /\ took = 0
    /\ sleep = 0
    /\ sensed = {}

\* kv_storage::init has not run since power-up
NoInit == [mount |-> FALSE, formats |-> 0, ok |-> FALSE]

Init ==
    /\ InitPipeline
    /\ phase = "telemetry"
    /\ store = ProvisionedStore
    /\ call = NoCall
    /\ kv = [mount |-> TRUE, formats |-> 0, ok |-> TRUE]

\* ------------------------------------------------- sensors::task (loop)
\* embassy_time: Duration - Duration is checked_sub(..).expect(..), a panic
\* when the right side is the larger one
DurationSub(a, b) ==
    IF b > a THEN [ok |-> FALSE, val |-> 0] ELSE [ok |-> TRUE, val |-> a - b]

\* the seconds a cycle of the acquisition loop measures for when every
\* sensor answers at once, and the times taken when a read stalls
NominalMeasureSecs == 1
MeasureTimes ==
    {0, NominalMeasureSecs, PERIOD_SECS - 1}
    \cup PERIOD_SECS..(PERIOD_SECS + MaxOverrunSecs)

\* sensors.rs:90..131  a warm-up cycle that measures for `t` seconds, t in
\* times: the sensors are read, the readings are thrown away, and the loop
\* continues after a timer of 3 s
AcqSkipIn(times) ==
    /\ phase = "telemetry"
    /\ skip > 0
    /\ skip' = skip - 1
    /\ \E t \in times : took' = t
    /\ sleep' = WARMUP_SLEEP_SECS
    /\ UNCHANGED <<clock, dropped, sensed, queue, HAS_DATA, enqLog, lock>>
    /\ UNCHANGED <<pubVars, chan, mqttVars, UP, sendVars, cmdVars>>
    /\ UNCHANGED sysVars

\* a warm-up cycle with every sensor answering at once
AcqSkip == AcqSkipIn({NominalMeasureSecs})

\* mutant: the last warm-up cycle already enqueues
AcqCycleInEarly(limit, times, outcomes) ==
    /\ phase = "telemetry"
    /\ skip <= 1
    /\ clock <= limit
    /\ lock = "free"
    /\ LET r == Enqueue(queue, clock) IN
        /\ queue' = r.q
        /\ enqLog' = IF r.ok THEN Append(enqLog, clock) ELSE enqLog
        /\ dropped' = IF r.ok THEN dropped ELSE Append(dropped, r.rejected)
    /\ lock' = "free"
    /\ HAS_DATA' = TRUE
    /\ clock' = clock + 1
    /\ \E t \in times, got \in outcomes :
        LET d == DurationSub(PERIOD_SECS, t) IN
        /\ took' = t
        /\ sensed' = got
        /\ sleep' = d.val
        /\ phase' = IF d.ok THEN phase ELSE "panic"
    /\ UNCHANGED skip
    /\ UNCHANGED <<pubVars, chan, mqttVars, UP, sendVars, cmdVars>>
    /\ UNCHANGED <<store, NEED_REBOOT, call, ret, kv>>

\* sensors.rs:90..170  a steady-state cycle that measures for `t` seconds, t
\* in times, with the sensors of `got` answering, got in outcomes: the
\* Sample is built from the readings there are, enqueued under the lock
\* (the result is discarded with .ok(), the guard dropped at the end of the
\* block), HAS_DATA is signalled, and the loop sleeps for 60 s - t; the
\* subtraction panics when t is above 60 s
AcqCycleIn(limit, times, outcomes) ==
    /\ phase = "telemetry"
    /\ skip = 0
    /\ clock <= limit
    /\ lock = "free"
    /\ LET r == Enqueue(queue, clock) IN
        /\ queue' = r.q
        /\ enqLog' = IF r.ok THEN Append(enqLog, clock) ELSE enqLog
        /\ dropped' = IF r.ok THEN dropped ELSE Append(dropped, r.rejected)
    /\ lock' = "free"
    /\ HAS_DATA' = TRUE
    /\ clock' = clock + 1
    /\ \E t \in times, got \in outcomes :
        LET d == DurationSub(PERIOD_SECS, t) IN
        /\ took' = t
        /\ sensed' = got
        /\ sleep' = d.val
        /\ phase' = IF d.ok THEN phase ELSE "panic"
    /\ UNCHANGED skip
    /\ UNCHANGED <<pubVars, chan, mqttVars, UP, sendVars, cmdVars>>
    /\ UNCHANGED <<store, NEED_REBOOT, call, ret, kv>>

\* a steady-state cycle with every sensor answering at once
AcqCycle(limit) == AcqCycleIn(limit, {NominalMeasureSecs}, {Sensors})

\* mutant: the later cycles do not signal
AcqCycleBeyondSilent(limit) ==
    /\ phase = "telemetry"
    /\ skip = 0
    /\ clock > limit
    /\ lock = "free"
    /\ UNCHANGED HAS_DATA
    /\ UNCHANGED <<queue, enqLog, lock, acqVars>>
    /\ UNCHANGED <<pubVars, chan, mqttVars, UP, sendVars, cmdVars>>
    /\ UNCHANGED sysVars

\* sensors.rs:162..166  the cycles of the acquisition loop after the first
\* `limit` samples, as far as the samples before them are concerned: their
\* own samples go to the back of the queue, behind every sample that is in
\* it, and are not followed; HAS_DATA is signalled
AcqCycleBeyond(limit) ==
    /\ phase = "telemetry"
    /\ skip = 0
    /\ clock > limit
    /\ lock = "free"
    /\ HAS_DATA' = TRUE
    /\ UNCHANGED <<queue, enqLog, lock, acqVars>>
    /\ UNCHANGED <<pubVars, chan, mqttVars, UP, sendVars, cmdVars>>
    /\ UNCHANGED sysVars

\* ------------------------------------------------------- publisher_loop
\* mqtt.rs:87  HAS_DATA.wait() takes the signal
PubWait ==
    /\ phase = "telemetry"
    /\ ppc = "wait"
    /\ HAS_DATA
    /\ HAS_DATA' = FALSE
    /\ ppc' = "drain"
    /\ UNCHANGED <<held, deqLog, sent, queue, chan, enqLog>>
    /\ UNCHANGED <<acqVars, mqttVars, UP, sendVars, cmdVars>>
    /\ UNCHANGED sysVars
    /\ UNCHANGED lock

\* mutant: the guard lives as long as the scrutinee of the while-let, that
\* is through the body of the loop
HeldInBodyWholeIteration == "publisher"

\* mqtt.rs:89  `{ sensors::QUEUE.lock().await.dequeue() }`: the holder of the
\* lock while the body of the while-let runs.  The guard is a temporary of
\* the tail expression of the block; the crate is of the 2024 edition (the
\* let chain of config.rs:59..63 is accepted there only), in which such a
\* temporary is dropped at the end of the block.
HeldInBody == "free"

\* mutant: a sample that does not fit into the publish channel is dropped
PubDrainDropsOnFull ==
    /\ phase = "telemetry"
    /\ ppc = "drain"
    /\ lock = "free"
    /\ lock' = "free"
    /\ LET r == Dequeue(queue) IN
        /\ queue' = r.q
        /\ IF ~r.some
           THEN /\ ppc' = "wait"
                /\ UNCHANGED <<held, chan, deqLog, sent>>
           ELSE /\ deqLog' = Append(deqLog, r.val)
                /\ chan' = IF Len(chan) < PUBLISH_QUEUE_SIZE
                           THEN Append(chan, r.val) ELSE chan
                /\ sent' = IF Len(chan) < PUBLISH_QUEUE_SIZE
                           THEN Append(sent, r.val) ELSE sent
                /\ UNCHANGED <<ppc, held>>
    /\ UNCHANGED <<HAS_DATA, enqLog>>
    /\ UNCHANGED <<acqVars, mqttVars, UP, sendVars, cmdVars>>
    /\ UNCHANGED sysVars

\* mqtt.rs:89..96  one iteration of the while-let: dequeue under the lock,
\* try_send, and on Full keep the sample for send().await
PubDrain ==
    /\ phase = "telemetry"
    /\ ppc = "drain"
    /\ lock = "free"
    /\ LET r == Dequeue(queue) IN
        /\ queue' = r.q
        /\ IF ~r.some
           THEN /\ ppc' = "wait"
                /\ lock' = "free"
                /\ UNCHANGED <<held, chan, deqLog, sent>>
           ELSE /\ deqLog' = Append(deqLog, r.val)
                /\ IF Len(chan) < PUBLISH_QUEUE_SIZE
                   THEN /\ chan' = Append(chan, r.val)
                        /\ sent' = Append(sent, r.val)
                        /\ lock' = "free"
                        /\ UNCHANGED <<ppc, held>>
                   ELSE /\ held' = r.val
                        /\ ppc' = "send"
                        /\ lock' = HeldInBody
                        /\ UNCHANGED <<chan, sent>>
    /\ UNCHANGED <<HAS_DATA, enqLog>>
    /\ UNCHANGED <<acqVars, mqttVars, UP, sendVars, cmdVars>>
    /\ UNCHANGED sysVars

\* mutant: the sample that waited for capacity is given up
PubSendDiscards ==
    /\ phase = "telemetry"
    /\ ppc = "send"
    /\ Len(chan) < PUBLISH_QUEUE_SIZE
    /\ UNCHANGED <<chan, sent>>
    /\ held' = 0
    /\ ppc' = "drain"
    /\ UNCHANGED <<deqLog, queue, HAS_DATA, enqLog>>
    /\ UNCHANGED <<acqVars, mqttVars, UP, sendVars, cmdVars>>
    /\ UNCHANGED sysVars
    /\ lock' = "free"

\* mqtt.rs:94  sender.send(sample).await completes once there is capacity;
\* the body of the while-let ends
PubSend ==
    /\ phase = "telemetry"
    /\ ppc = "send"
    /\ Len(chan) < PUBLISH_QUEUE_SIZE
    /\ chan' = Append(chan, held)
    /\ sent' = Append(sent, held)
    /\ held' = 0
    /\ ppc' = "drain"
    /\ UNCHANGED <<deqLog, queue, HAS_DATA, enqLog>>
    /\ UNCHANGED <<acqVars, mqttVars, UP, sendVars, cmdVars>>
    /\ UNCHANGED sysVars
    /\ lock' = "free"

\* ------------------------------------------------------------ wifi::task
\* mutant: UP is signalled only until the first session is up
WifiUpOnce ==
    /\ phase = "telemetry"
    /\ ~READY
    /\ UP' = TRUE
    /\ UNCHANGED <<queue, HAS_DATA, chan, enqLog>>
    /\ UNCHANGED <<acqVars, pubVars, mqttVars, sendVars, cmdVars>>
    /\ UNCHANGED sysVars
    /\ UNCHANGED lock

\* wifi.rs:17, 27  UP.signal(()) on every connectivity check that passes
WifiUp ==
    /\ phase = "telemetry"
    /\ UP' = TRUE
    /\ UNCHANGED <<queue, HAS_DATA, chan, enqLog>>
    /\ UNCHANGED <<acqVars, pubVars, mqttVars, sendVars, cmdVars>>
    /\ UNCHANGED sysVars
    /\ UNCHANGED lock

\* the same signal in an outage that lasts until the Sample Queue is full
WifiUpAfterOutage ==
    /\ Len(queue) = QueueCapacity
    /\ WifiUp

\* ------------------------------------------------------------- mqtt_loop
\* mutant: the wait leaves the signal set
MqttWifiUpKeepsSignal ==
    /\ phase = "telemetry"
    /\ mpc = "wifi_wait"
    /\ UP
    /\ UP' = UP
    /\ mpc' = "tcp_connecting"
    /\ ev' = "wifi_up"
    /\ msg' = NoMsg
    /\ UNCHANGED <<backoff, burst, READY, DOWN, sig, fails, delay>>
    /\ UNCHANGED <<queue, HAS_DATA, chan, enqLog>>
    /\ UNCHANGED <<acqVars, pubVars, sendVars, cmdVars>>
    /\ UNCHANGED sysVars
    /\ UNCHANGED <<wakePub, waited, lock>>

\* mqtt.rs:125  wifi::UP.wait() takes the signal; the cycle starts
MqttWifiUp ==
    /\ phase = "telemetry"
    /\ mpc = "wifi_wait"
    /\ UP
    /\ UP' = FALSE
    /\ mpc' = "tcp_connecting"
    /\ ev' = "wifi_up"
    /\ msg' = NoMsg
    /\ UNCHANGED <<backoff, burst, READY, DOWN, sig, fails, delay>>
    /\ UNCHANGED <<queue, HAS_DATA, chan, enqLog>>
    /\ UNCHANGED <<acqVars, pubVars, sendVars, cmdVars>>
    /\ UNCHANGED sysVars
    /\ UNCHANGED <<wakePub, waited, lock>>

\* mutant: a failed connect signals DOWN
ConnectFailureSignalsDown(kind) ==
    /\ phase = "telemetry"
    /\ fails < MaxFails
    /\ mpc' = "backoff"
    /\ delay' = backoff
    /\ fails' = fails + 1
    /\ ev' = kind
    /\ msg' = NoMsg
    /\ DOWN' = TRUE
    /\ sig' = "down"
    /\ UNCHANGED <<backoff, burst, READY>>
    /\ UNCHANGED <<queue, HAS_DATA, chan, enqLog, UP>>
    /\ UNCHANGED <<acqVars, pubVars, sendVars, cmdVars>>
    /\ UNCHANGED sysVars
    /\ UNCHANGED <<wakePub, waited, lock>>

\* mqtt.rs:135..138, 162..166, 170..174  the three identical failure arms:
\* wait `backoff` seconds; the doubling follows when the timer has fired
ConnectFailure(kind) ==
    /\ phase = "telemetry"
    /\ fails < MaxFails
    /\ mpc' = "backoff"
    /\ delay' = backoff
    /\ fails' = fails + 1
    /\ ev' = kind
    /\ msg' = NoMsg
    /\ UNCHANGED <<backoff, burst, READY, DOWN, sig>>
    /\ UNCHANGED <<queue, HAS_DATA, chan, enqLog, UP>>
    /\ UNCHANGED <<acqVars, pubVars, sendVars, cmdVars>>
    /\ UNCHANGED sysVars
    /\ UNCHANGED <<wakePub, waited, lock>>

\* mqtt.rs:134  tcp_socket.connect(..) returned Err
MqttTcpConnectErr ==
    /\ mpc = "tcp_connecting"
    /\ ConnectFailure("tcp_err")

\* mqtt.rs:161  TCP connected, client.schedule_connect(options) returned Err
MqttScheduleConnectErr ==
    /\ mpc = "tcp_connecting"
    /\ ConnectFailure("sched_err")

\* mutant: the backoff is reset as soon as TCP is connected
MqttTcpConnectedResets ==
    /\ phase = "telemetry"
    /\ mpc = "tcp_connecting"
    /\ mpc' = "mqtt_connecting"
    /\ ev' = "tcp_ok"
    /\ msg' = NoMsg
    /\ backoff' = BACKOFF_INIT
    /\ UNCHANGED <<burst, READY, DOWN, sig, fails, delay>>
    /\ UNCHANGED <<queue, HAS_DATA, chan, enqLog, UP>>
    /\ UNCHANGED <<acqVars, pubVars, sendVars, cmdVars>>
    /\ UNCHANGED sysVars
    /\ UNCHANGED <<wakePub, waited, lock>>

\* mqtt.rs:134..167  TCP connected and CONNECT scheduled
MqttTcpConnected ==
    /\ phase = "telemetry"
    /\ mpc = "tcp_connecting"
    /\ mpc' = "mqtt_connecting"
    /\ ev' = "tcp_ok"
    /\ msg' = NoMsg
    /\ UNCHANGED <<backoff, burst, READY, DOWN, sig, fails, delay>>
    /\ UNCHANGED <<queue, HAS_DATA, chan, enqLog, UP>>
    /\ UNCHANGED <<acqVars, pubVars, sendVars, cmdVars>>
    /\ UNCHANGED sysVars
    /\ waited' = 0
    /\ UNCHANGED <<wakePub, lock>>

\* mqtt.rs:169, 236..250  wait_for_connect returned Err: deadline passed,
\* Event::Disconnected, or a poll error
MqttWaitForConnectErr ==
    /\ mpc = "mqtt_connecting"
    /\ \E kind \in {"connack_timeout", "connack_disconnected", "connack_poll_err"} :
          ConnectFailure(kind)

\* mqtt.rs:177..188  wait_for_connect returned Ok: READY, backoff = 1,
\* subscribe scheduled (its error is only logged)
MqttWaitForConnectOk ==
    /\ phase = "telemetry"
    /\ mpc = "mqtt_connecting"
    /\ READY' = TRUE
    /\ sig' = "ready"
    /\ backoff' = BACKOFF_INIT
    /\ fails' = 0
    /\ mpc' = "connected"
    /\ ev' = "connack"
    /\ msg' = NoMsg
    /\ sessionPub' = <<>>
    /\ UNCHANGED <<burst, DOWN, delay>>
    /\ UNCHANGED <<queue, HAS_DATA, chan, enqLog, UP>>
    /\ UNCHANGED <<published, lost, requeued, pubFails>>
    /\ UNCHANGED <<acqVars, pubVars, cmdVars>>
    /\ UNCHANGED sysVars
    /\ UNCHANGED <<wakePub, waited, lock>>

\* mqtt.rs:239..248, 252..259  one turn of the loop of wait_for_connect
\* before the deadline: poll_io_with_timeout returns after at most 6 s with
\* no event (the timer won) or with an event that is neither Connected nor
\* Disconnected, and the loop goes round
MqttConnackPoll ==
    /\ phase = "telemetry"
    /\ mpc = "mqtt_connecting"
    /\ waited < CONNECT_TIMEOUT_SECS
    /\ \E d \in 1..IO_POLL_TIMEOUT_SECS : waited' = waited + d
    /\ ev' = "connack_poll"
    /\ msg' = NoMsg
    /\ UNCHANGED <<mpc, backoff, burst, READY, DOWN, sig, fails, delay, wakePub>>
    /\ UNCHANGED <<queue, HAS_DATA, chan, enqLog, UP, lock>>
    /\ UNCHANGED <<acqVars, pubVars, sendVars, cmdVars>>
    /\ UNCHANGED sysVars

\* mqtt.rs:240..242  Instant::now() >= deadline: Err(TimedOut)
MqttConnackDeadline ==
    /\ mpc = "mqtt_connecting"
    /\ waited >= CONNECT_TIMEOUT_SECS
    /\ ConnectFailure("connack_timeout")

\* mqtt.rs:136..138  Timer::after_secs(backoff) fired; backoff doubles and
\* `continue` restarts the cycle
MqttBackoffElapsed ==
    /\ phase = "telemetry"
    /\ mpc = "backoff"
    /\ backoff' = NextBackoff(backoff)
    /\ mpc' = "wifi_wait"
    /\ ev' = "backoff_done"
    /\ msg' = NoMsg
    /\ UNCHANGED <<burst, READY, DOWN, sig, fails, delay>>
    /\ UNCHANGED <<queue, HAS_DATA, chan, enqLog, UP>>
    /\ UNCHANGED <<acqVars, pubVars, sendVars, cmdVars>>
    /\ UNCHANGED sysVars
    /\ UNCHANGED <<wakePub, waited, lock>>

\* mqtt.rs:191..195  client.poll_timers() returned Err
MqttPollTimersErr ==
    /\ phase = "telemetry"
    /\ mpc = "connected"
    /\ DOWN' = TRUE
    /\ sig' = "down"
    /\ mpc' = "wifi_wait"
    /\ ev' = "timer_err"
    /\ msg' = NoMsg
    /\ UNCHANGED <<backoff, burst, READY, fails, delay>>
    /\ UNCHANGED <<queue, HAS_DATA, chan, enqLog, UP>>
    /\ UNCHANGED <<acqVars, pubVars, sendVars, cmdVars>>
    /\ UNCHANGED sysVars
    /\ wakePub' = 0
    /\ UNCHANGED <<waited, lock>>

\* mqtt.rs:261..291  publish_sample, schedule_publish returned Ok: true
PublishSampleOk(sample, limit) ==
    /\ Len(published) < limit
    /\ published' = Append(published, sample)
    /\ sessionPub' = Append(sessionPub, sample)
    /\ UNCHANGED <<queue, enqLog, lost, requeued, pubFails, lock>>

\* mutant: the sample that failed to publish is dropped
PublishSampleErrDrop(sample) ==
    /\ pubFails < MaxPubFails
    /\ pubFails' = pubFails + 1
    /\ lost' = Append(lost, sample)
    /\ UNCHANGED <<queue, enqLog, requeued, published, sessionPub, lock>>

\* mqtt.rs:275..288  publish_sample, schedule_publish returned Err: the
\* sample is enqueued again under the lock (a full queue is only logged),
\* HAS_DATA is not signalled; false.  The guard is dropped at the end of the
\* let statement.
PublishSampleErr(sample) ==
    /\ pubFails < MaxPubFails
    /\ pubFails' = pubFails + 1
    /\ lock = "free"
    /\ lock' = "free"
    /\ LET r == Enqueue(queue, sample) IN
        /\ queue' = r.q
        /\ enqLog' = IF r.ok THEN Append(enqLog, sample) ELSE enqLog
        /\ requeued' = IF r.ok THEN Append(requeued, sample) ELSE requeued
        /\ lost' = IF r.ok THEN lost ELSE Append(lost, r.rejected)
    /\ UNCHANGED <<published, sessionPub>>

\* mqtt.rs:206..207, 215..216  DOWN.signal(()) and break out of 'connected
SessionDown(kind) ==
    /\ DOWN' = TRUE
    /\ sig' = "down"
    /\ mpc' = "wifi_wait"
    /\ burst' = 0
    /\ ev' = kind
    /\ msg' = NoMsg

\* mqtt.rs:197..209  the receive() branch of the select won: publish the
\* first sample of the wake
MqttReceive(limit) ==
    /\ phase = "telemetry"
    /\ mpc = "connected"
    /\ chan # <<>>
    /\ chan' = Tail(chan)
    /\ \/ /\ PublishSampleOk(Head(chan), limit)
          /\ mpc' = "burst"
          /\ burst' = 0
          /\ wakePub' = 1
          /\ ev' = "publish_ok"
          /\ msg' = NoMsg
          /\ UNCHANGED <<DOWN, sig>>
       \/ /\ PublishSampleErr(Head(chan))
          /\ wakePub' = 0
          /\ SessionDown("publish_first_fail")
    /\ UNCHANGED <<backoff, READY, fails, delay, waited>>
    /\ UNCHANGED <<HAS_DATA, UP>>
    /\ UNCHANGED <<acqVars, pubVars, cmdVars>>
    /\ UNCHANGED sysVars

\* mutant: the publish channel is drained from its newest end
MqttBurstNewestFirst(limit) ==
    /\ phase = "telemetry"
    /\ mpc = "burst"
    /\ IF chan = <<>>
       THEN /\ mpc' = "connected"
            /\ burst' = 0
            /\ ev' = "burst_empty"
            /\ msg' = NoMsg
            /\ UNCHANGED <<chan, queue, enqLog, DOWN, sig, sendVars, wakePub, lock>>
       ELSE /\ chan' = SubSeq(chan, 1, Len(chan) - 1)
            /\ \/ /\ PublishSampleOk(chan[Len(chan)], limit)
                  /\ mpc' = IF burst + 1 < PUBLISH_BURST THEN "burst" ELSE "connected"
                  /\ burst' = IF burst + 1 < PUBLISH_BURST THEN burst + 1 ELSE 0
                  /\ wakePub' = wakePub + 1
                  /\ ev' = "publish_ok"
                  /\ msg' = NoMsg
                  /\ UNCHANGED <<DOWN, sig>>
               \/ /\ PublishSampleErr(chan[Len(chan)])
                  /\ UNCHANGED wakePub
                  /\ SessionDown("publish_burst_fail")
    /\ UNCHANGED <<backoff, READY, fails, delay, waited>>
    /\ UNCHANGED <<HAS_DATA, UP>>
    /\ UNCHANGED <<acqVars, pubVars, cmdVars>>
    /\ UNCHANGED sysVars

\* mqtt.rs:210..221  one iteration of `for _ in 0..PUBLISH_BURST`
MqttBurst(limit) ==
    /\ phase = "telemetry"
    /\ mpc = "burst"
    /\ IF chan = <<>>
       THEN /\ mpc' = "connected"
            /\ burst' = 0
            /\ ev' = "burst_empty"
            /\ msg' = NoMsg
            /\ UNCHANGED <<chan, queue, enqLog, DOWN, sig, sendVars, wakePub, lock>>
       ELSE /\ chan' = Tail(chan)
            /\ \/ /\ PublishSampleOk(Head(chan), limit)
                  /\ mpc' = IF burst + 1 < PUBLISH_BURST THEN "burst" ELSE "connected"
                  /\ burst' = IF burst + 1 < PUBLISH_BURST THEN burst + 1 ELSE 0
                  /\ wakePub' = wakePub + 1
                  /\ ev' = "publish_ok"
                  /\ msg' = NoMsg
                  /\ UNCHANGED <<DOWN, sig>>
               \/ /\ PublishSampleErr(Head(chan))
                  /\ UNCHANGED wakePub
                  /\ SessionDown("publish_burst_fail")
    /\ UNCHANGED <<backoff, READY, fails, delay, waited>>
    /\ UNCHANGED <<HAS_DATA, UP>>
    /\ UNCHANGED <<acqVars, pubVars, cmdVars>>
    /\ UNCHANGED sysVars

\* mutant: a command that does not fit into the Command Channel ends the
\* session
MqttPollIoUpToEndsSession(maxCmds) ==
    /\ phase = "telemetry"
    /\ mpc = "connected"
    /\ chan = <<>>
    /\ \E event \in PollEvents :
       \E m \in IF event = "received" THEN InboundMsgs ELSE {NoMsg} :
        /\ (event = "received" /\ ReceivedKind(m) = "received_command") => cmds < maxCmds
        /\ cmds' = IF event = "received" /\ ReceivedKind(m) = "received_command"
                   THEN cmds + 1 ELSE cmds
        /\ cmdq' = PollCommands(event, m, cmdq)
        /\ IF /\ HandlePollResult(event)
              /\ ~(/\ event = "received"
                   /\ ReceivedKind(m) = "received_command"
                   /\ Len(cmdq) >= SUBSCRIBE_QUEUE_SIZE)
           THEN /\ ev' = IF event = "received" THEN ReceivedKind(m) ELSE event
                /\ msg' = m
                /\ UNCHANGED <<mpc, burst, DOWN, sig>>
           ELSE SessionDown(event)
    /\ UNCHANGED <<backoff, READY, fails, delay>>
    /\ UNCHANGED <<queue, HAS_DATA, chan, enqLog, UP>>
    /\ UNCHANGED <<acqVars, pubVars, sendVars>>
    /\ UNCHANGED sysVars
    /\ wakePub' = 0
    /\ UNCHANGED <<waited, lock>>

\* mqtt.rs:223..228  the poll_io_with_timeout branch of the select won.
\* select polls receive() first, so this branch wins only while the
\* publish channel is empty.  At most maxCmds valid commands arrive.
MqttPollIoUpTo(maxCmds) ==
    /\ phase = "telemetry"
    /\ mpc = "connected"
    /\ chan = <<>>
    /\ \E event \in PollEvents :
       \E m \in IF event = "received" THEN InboundMsgs ELSE {NoMsg} :
        /\ (event = "received" /\ ReceivedKind(m) = "received_command") => cmds < maxCmds
        /\ cmds' = IF event = "received" /\ ReceivedKind(m) = "received_command"
                   THEN cmds + 1 ELSE cmds
        /\ cmdq' = PollCommands(event, m, cmdq)
        /\ IF HandlePollResult(event)
           THEN /\ ev' = IF event = "received" THEN ReceivedKind(m) ELSE event
                /\ msg' = m
                /\ UNCHANGED <<mpc, burst, DOWN, sig>>
           ELSE SessionDown(event)
    /\ UNCHANGED <<backoff, READY, fails, delay>>
    /\ UNCHANGED <<queue, HAS_DATA, chan, enqLog, UP>>
    /\ UNCHANGED <<acqVars, pubVars, sendVars>>
    /\ UNCHANGED sysVars
    /\ wakePub' = 0
    /\ UNCHANGED <<waited, lock>>

\* mutant: the receive() that lost the race has taken a sample with it
MqttPollIoTakesSample ==
    /\ phase = "telemetry"
    /\ mpc = "connected"
    /\ \E event \in PollEvents :
       \E m \in IF event = "received" THEN InboundMsgs ELSE {NoMsg} :
        /\ (event = "received" /\ ReceivedKind(m) = "received_command") => cmds < MaxCmds
        /\ cmds' = IF event = "received" /\ ReceivedKind(m) = "received_command"
                   THEN cmds + 1 ELSE cmds
        /\ cmdq' = PollCommands(event, m, cmdq)
        /\ IF HandlePollResult(event)
           THEN /\ ev' = IF event = "received" THEN ReceivedKind(m) ELSE event
                /\ msg' = m
                /\ UNCHANGED <<mpc, burst, DOWN, sig>>
           ELSE SessionDown(event)
    /\ UNCHANGED <<backoff, READY, fails, delay>>
    /\ chan' = IF chan = <<>> THEN chan ELSE Tail(chan)
    /\ UNCHANGED <<queue, HAS_DATA, enqLog, UP>>
    /\ UNCHANGED <<acqVars, pubVars, sendVars>>
    /\ UNCHANGED sysVars
    /\ wakePub' = 0
    /\ UNCHANGED <<waited, lock>>

\* mqtt.rs:223..228  the same branch with at most MaxCmds valid commands
MqttPollIo == MqttPollIoUpTo(MaxCmds)

\* ------------------------------------------------------ device lifecycle
\* esp_hal::system::software_reset: the RAM starts over, the Settings Store
\* stays, main runs again
Restart ==
    /\ phase' = "boot"
    /\ NEED_REBOOT' = FALSE
    /\ skip' = SKIP_INIT
    /\ queue' = <<>>
    /\ HAS_DATA' = FALSE
    /\ ppc' = "wait"
    /\ held' = 0
    /\ chan' = <<>>
    /\ cmdq' = <<>>
    /\ mpc' = "wifi_wait"
    /\ backoff' = BACKOFF_INIT
    /\ burst' = 0
    /\ UP' = FALSE
    /\ READY' = FALSE
    /\ DOWN' = FALSE
    /\ sig' = "none"
    /\ ev' = "start"
    /\ msg' = NoMsg
    /\ fails' = 0
    /\ delay' = 0
    /\ call' = NoCall
    /\ ret' = NoRet
    /\ UNCHANGED <<clock, enqLog, deqLog, sent, dropped, sendVars, cmds, kv>>
    /\ wakePub' = 0
    /\ waited' = 0
    /\ lock' = "free"
    /\ took' = 0
    /\ sleep' = 0
    /\ sensed' = {}

\* the Settings Store right after format: no key
EmptyStore == [k \in Keys |-> None]

\* mutant: init formats whatever mount returns
KvInitFormatsAlways ==
    /\ phase = "boot"
    /\ \E mountOk \in BOOLEAN, formatOk \in BOOLEAN :
        /\ kv' = [mount |-> mountOk, formats |-> 1, ok |-> formatOk]
        /\ store' \in IF formatOk THEN {EmptyStore} ELSE {store, EmptyStore}
        /\ phase' = IF formatOk THEN "mounted" ELSE "panic"
    /\ UNCHANGED <<pipeVars, NEED_REBOOT, call, ret>>

\* kv_storage.rs:207..225 init, main.rs:125..131: mount; format only when
\* mount fails, its error returned with `?`; main panics on Err.  A format
\* that succeeds leaves a store without keys, one that fails may have
\* erased it or not.
KvInit ==
    /\ phase = "boot"
    /\ \E mountOk \in BOOLEAN, formatOk \in BOOLEAN :
        /\ kv' = [mount |-> mountOk,
                  formats |-> IF mountOk THEN 0 ELSE 1,
                  ok |-> mountOk \/ formatOk]
        /\ store' \in IF mountOk THEN {store}
                      ELSE IF formatOk THEN {EmptyStore}
                      ELSE {store, EmptyStore}
        /\ phase' = IF mountOk \/ formatOk THEN "mounted" ELSE "panic"
    /\ UNCHANGED <<pipeVars, NEED_REBOOT, call, ret>>

\* main.rs:133..179  main: get_initial_settings, then init_start
\* (provisioning) or run (telemetry); Err and unreachable!() panic.  A read
\* may also fail in the flash.  On the telemetry path run() is entered; its
\* tasks are spawned by RunStart.
Boot ==
    /\ phase = "mounted"
    /\ \E flashOk \in BOOLEAN :
        LET r == GetInitialSettings(store)
            path == IF flashOk /\ r.ok THEN BootPath(r.val) ELSE "panic"
        IN phase' = IF path = "telemetry" THEN "run" ELSE path
    /\ UNCHANGED <<pipeVars, store, NEED_REBOOT, call, ret, kv>>

\* mutant: the tasks are spawned before the broker address is parsed
RunStartSpawnsFirst ==
    /\ phase = "run"
    /\ phase' = "telemetry"
    /\ UNCHANGED <<pipeVars, store, NEED_REBOOT, call, ret, kv>>

\* main.rs:187..245  run, once the link and the IPv4 configuration are up:
\* the stored broker address is parsed; Ok goes on to spawn mqtt::task and
\* sensors::task, Err calls set_reboot(db).await.unwrap(), which restarts
\* the device when the flag is committed and panics when it is not
RunStart ==
    /\ phase = "run"
    /\ LET settings == GetInitialSettings(store).val.s
           address == ParseIpv4(Utf8Encode(settings.mqtt_broker))
       IN IF address.ok
          THEN /\ phase' = "telemetry"
               /\ UNCHANGED <<pipeVars, store, NEED_REBOOT, call, ret, kv>>
          ELSE \E failAt \in 0..2 :
                LET r == SetReboot(store, failAt) IN
                /\ store' = r.db
                /\ IF r.ok
                   THEN Restart
                   ELSE /\ phase' = "panic"
                        /\ UNCHANGED <<pipeVars, NEED_REBOOT, call, ret, kv>>

\* web.rs:47..58  the /save handler: save_settings, and NEED_REBOOT on Ok
WebSave ==
    /\ phase = "provisioning"
    /\ \E data \in FormSettings :
       \E failAt \in 0..(Len(SaveWrites(data)) + 1) :
        LET r == SaveSettings(store, data, failAt) IN
        /\ store' = r.db
        /\ call' = [fn |-> "save_settings", arg |-> data]
        /\ ret' = [fn |-> "save_settings", val |-> r.ok]
        /\ NEED_REBOOT' = (r.ok \/ NEED_REBOOT)
    /\ UNCHANGED <<pipeVars, phase, kv>>

\* system.rs:28..38  reboot_on_request, spawned by init_start
RebootOnRequest ==
    /\ phase = "provisioning"
    /\ NEED_REBOOT
    /\ Restart
    /\ UNCHANGED store

\* mqtt.rs:72..83  command_execution_loop: receive a command, set_reboot;
\* Ok never comes back (the device restarts), Err is logged and the loop
\* goes on
CommandExecution ==
    /\ phase = "telemetry"
    /\ cmdq # <<>>
    /\ \E failAt \in 0..2 :
        LET r == SetReboot(store, failAt) IN
        /\ store' = r.db
        /\ IF r.ok
           THEN Restart
           ELSE /\ cmdq' = Tail(cmdq)
                /\ call' = [fn |-> "set_reboot", arg |-> Head(cmdq)]
                /\ ret' = [fn |-> "set_reboot", val |-> FALSE]
                /\ UNCHANGED <<queue, HAS_DATA, chan, enqLog, UP, acqVars,
                               pubVars, mqttVars, sendVars, cmds, phase,
                               NEED_REBOOT, lock, kv>>

\* ------------------------------------------------------ function calls
\* the payloads handed to Command::try_from: every payload of at most one
\* byte, and the longer ones over a few bytes
PayloadBytes == {0, 48, 49, 255}
Payloads ==
    {<<>>} \cup {<<b>> : b \in 0..255}
    \cup UNION {[1..n -> PayloadBytes] : n \in 2..MaxPayloadLen}

\* the settings handed to transmute: every field missing or set
OptionalSettingsValues ==
    [wifi_ssid : {None, Some(StoredValue(WIFI_SSID_KEY))},
     wifi_password : {None, Some(StoredValue(WIFI_PASSWORD_KEY))},
     mqtt_broker : {None, Some(StoredValue(MQTT_BROKER_KEY))},
     mqtt_client_id : {None, Some(StoredValue(MQTT_CLIENT_ID_KEY))},
     mqtt_topic : {None, Some(StoredValue(MQTT_TOPIC_KEY))},
     reboot_to_reconfigure : {None, Some(FALSE), Some(TRUE)}]
SettingsValues == {[tag |-> "Optional", s |-> o] : o \in OptionalSettingsValues}

\* the readings handed to calculate: every humidity from 0 to 100 percent
\* in steps of 1/HumScale, and the gas resistances around the band limits
\* and at the ends of the u32 range
Humidities == 0..(100 * HumScale)
GasValues ==
    [hi : {0, 1, 65535},
     lo : {0, 1, GAS_LOWER_LIMIT - 1, GAS_LOWER_LIMIT, GAS_LOWER_LIMIT + 1,
           GAS_UPPER_LIMIT \div 2, GAS_UPPER_LIMIT - 1, GAS_UPPER_LIMIT,
           GAS_UPPER_LIMIT + 1, 65535}]

\* the samples handed to build_payload: every field missing or set
Samples ==
    [timestamp : {1},
     temperature : {None, Some(21)},
     pressure : {None, Some(1013)},
     humidity : {None, Some(40)},
     hum_sht40 : {None, Some(41)},
     temp_sht40 : {None, Some(22)},
     press_bmp390 : {None, Some(1012)},
     temp_bmp390 : {None, Some(23)},
     gas_ohm : {None, Some(0)},
     lux_veml7700 : {None, Some(300)},
     lux_bh1750 : {None, Some(301)},
     aiq_score : {None, Some(25)}]

TryFromCalls == {[fn |-> "try_from", arg |-> p] : p \in Payloads}
TransmuteCalls == {[fn |-> "transmute", arg |-> e] : e \in SettingsValues}
AiqFromScoreCalls == {[fn |-> "aiq_from_score", arg |-> n] : n \in 0..MaxScore}
CalculateCalls ==
    {[fn |-> "calculate", arg |-> [humidity |-> h, gas |-> g]] :
        h \in Humidities, g \in GasValues}
BuildPayloadCalls == {[fn |-> "build_payload", arg |-> x] : x \in Samples}

\* the replies handed to sync_time: too short and full-length ones, the
\* bytes of the seconds field around the bytes of NTP_UNIX_OFFSET
\* (0x83AA7E80) and at the ends of the range, the rest of the buffer zero;
\* the time state unset or set; a build with or without overflow checks
NtpBytes == {0, 126, 128, 131, 170, 255}
NtpSizes == {0, 47, 48}
NtpReplies ==
    {[i \in 1..48 |-> IF i \in 41..44 THEN b[i - 40] ELSE 0] :
        b \in [1..4 -> NtpBytes]}
TimeStates ==
    {[unit_at_sync |-> U32Zero, uptime_at_sync |-> 0],
     [unit_at_sync |-> [hi |-> 26000, lo |-> 1], uptime_at_sync |-> 5]}
SyncTimeCalls ==
    {[fn |-> "sync_time",
      arg |-> [state |-> t, uptime |-> 9, size |-> n, recv_buf |-> r,
               checks |-> c]] :
        t \in TimeStates, n \in NtpSizes, r \in NtpReplies, c \in BOOLEAN}

InitCalls ==
    /\ InitPipeline
    /\ phase = "off"
    /\ store = ProvisionedStore
    /\ kv = NoInit
    /\ \/ call \in TryFromCalls
       \/ call \in TransmuteCalls
       \/ call \in AiqFromScoreCalls
       \/ call \in CalculateCalls
       \/ call \in BuildPayloadCalls
       \/ call \in SyncTimeCalls

CallTryFrom ==
    /\ call.fn = "try_from"
    /\ ret.fn = "none"
    /\ ret' = [fn |-> call.fn, val |-> CommandTryFrom(call.arg)]
    /\ UNCHANGED <<pipeVars, phase, store, NEED_REBOOT, call, kv>>

CallTransmute ==
    /\ call.fn = "transmute"
    /\ ret.fn = "none"
    /\ ret' = [fn |-> call.fn, val |-> Transmute(call.arg)]
    /\ UNCHANGED <<pipeVars, phase, store, NEED_REBOOT, call, kv>>

CallAiqFromScore ==
    /\ call.fn = "aiq_from_score"
    /\ ret.fn = "none"
    /\ ret' = [fn |-> call.fn, val |-> AiqFromScore(call.arg)]
    /\ UNCHANGED <<pipeVars, phase, store, NEED_REBOOT, call, kv>>

CallCalculate ==
    /\ call.fn = "calculate"
    /\ ret.fn = "none"
    /\ ret' = [fn |-> call.fn, val |-> Calculate(call.arg.humidity, call.arg.gas)]
    /\ UNCHANGED <<pipeVars, phase, store, NEED_REBOOT, call, kv>>

CallBuildPayload ==
    /\ call.fn = "build_payload"
    /\ ret.fn = "none"
    /\ ret' = [fn |-> call.fn, val |-> BuildPayload(call.arg)]
    /\ UNCHANGED <<pipeVars, phase, store, NEED_REBOOT, call, kv>>

CallSyncTime ==
    /\ call.fn = "sync_time"
    /\ ret.fn = "none"
    /\ ret' = [fn |-> call.fn,
               val |-> SyncTask(call.arg.state, call.arg.uptime, call.arg.size,
                                call.arg.recv_buf, call.arg.checks)]
    /\ UNCHANGED <<pipeVars, phase, store, NEED_REBOOT, call, kv>>

\* ------------------------------------------------------- specifications
\* The pipeline from construction. With MaxSamples below PUBLISH_QUEUE_SIZE
\* the publish channel never fills, so PubSend is never enabled here; it is
\* part of NextOutage.
Next ==
    \/ AcqSkip
    \/ AcqCycle(MaxSamples)
    \/ PubWait
    \/ PubDrain
    \/ WifiUp
    \/ MqttWifiUp
    \/ MqttTcpConnectErr
    \/ MqttScheduleConnectErr
    \/ MqttTcpConnected
    \/ MqttWaitForConnectErr
    \/ MqttWaitForConnectOk
    \/ MqttBackoffElapsed
    \/ MqttPollTimersErr
    \/ MqttReceive(MaxSamples)
    \/ MqttBurst(MaxSamples)
    \/ MqttPollIo

Spec == Init /\ [][Next]_vars

\* An outage: Wi-Fi stays down until the Sample Queue has filled up, then
\* the broker accepts the connection and MaxOutagePublished samples.
NextOutage ==
    \/ AcqSkip
    \/ AcqCycle(MaxOutageSamples)
    \/ PubWait
    \/ PubDrain
    \/ PubSend
    \/ WifiUpAfterOutage
    \/ MqttWifiUp
    \/ MqttTcpConnected
    \/ MqttWaitForConnectOk
    \/ MqttReceive(MaxOutagePublished)
    \/ MqttBurst(MaxOutagePublished)

SpecOutage == Init /\ [][NextOutage]_vars

TypeOK ==
    /\ skip \in 0..SKIP_INIT
    /\ backoff \in 1..BACKOFF_CAP
    /\ Len(queue) <= QueueCapacity
    /\ Len(chan) <= PUBLISH_QUEUE_SIZE
    /\ mpc \in {"wifi_wait", "tcp_connecting", "backoff", "mqtt_connecting",
                "connected", "burst"}
    /\ ppc \in {"wait", "drain", "send"}

\* the scheduling the executor and the timers guarantee: a task that can run
\* is polled, a timer fires, an awaited network operation returns; the
\* Wi-Fi task keeps signalling UP while associated
Fairness ==
    /\ WF_vars(PubWait)
    /\ WF_vars(PubDrain)
    /\ WF_vars(WifiUp)
    /\ WF_vars(MqttWifiUp)
    /\ WF_vars(MqttTcpConnected)
    /\ WF_vars(MqttWaitForConnectOk)
    /\ WF_vars(MqttBackoffElapsed)
    /\ WF_vars(MqttReceive(MaxSamples))
    /\ WF_vars(MqttBurst(MaxSamples))

FairSpec == Spec /\ Fairness

\* A run without faults: every connect attempt succeeds, no poll reports a
\* fault, every schedule_publish is accepted.
NoFault == ~DOWN' /\ pubFails' = pubFails

MqttReceiveOk == MqttReceive(MaxFlowSamples) /\ NoFault
MqttBurstOk == MqttBurst(MaxFlowSamples) /\ NoFault
MqttPollIoOk == MqttPollIo /\ NoFault

FaultFreeNext ==
    \/ AcqSkip
    \/ AcqCycle(MaxFlowSamples)
    \/ PubWait
    \/ PubDrain
    \/ PubSend
    \/ WifiUp
    \/ MqttWifiUp
    \/ MqttTcpConnected
    \/ MqttWaitForConnectOk
    \/ MqttReceiveOk
    \/ MqttBurstOk
    \/ MqttPollIoOk

FaultFreeSpec ==
    /\ Init
    /\ [][FaultFreeNext]_vars
    /\ WF_vars(PubWait)
    /\ WF_vars(PubDrain)
    /\ WF_vars(PubSend)
    /\ WF_vars(WifiUp)
    /\ WF_vars(MqttWifiUp)
    /\ WF_vars(MqttTcpConnected)
    /\ WF_vars(MqttWaitForConnectOk)
    /\ WF_vars(MqttReceiveOk)
    /\ WF_vars(MqttBurstOk)

\* The functions on their own: one call each, on every argument of Calls.
NextCalls ==
    \/ CallTryFrom
    \/ CallTransmute
    \/ CallAiqFromScore
    \/ CallCalculate
    \/ CallBuildPayload
    \/ CallSyncTime

SpecCalls == InitCalls /\ [][NextCalls]_vars

\* The device from power-up, with any store: boot, provisioning with the
\* /save handler, telemetry with the command path.
InitDevice ==
    /\ InitPipeline
    /\ phase = "boot"
    /\ store \in Stores
    /\ call = NoCall
    /\ kv = NoInit

NextDevice ==
    \/ KvInit
    \/ Boot
    \/ RunStart
    \/ WebSave
    \/ RebootOnRequest
    \/ WifiUp
    \/ MqttWifiUp
    \/ MqttTcpConnected
    \/ MqttWaitForConnectOk
    \/ MqttPollIo
    \/ CommandExecution

SpecDevice == InitDevice /\ [][NextDevice]_vars

\* The pipeline with an acquisition loop that keeps cycling and a broker
\* that is reachable in the end: connect attempts fail at most MaxFails
\* times in a row, publishes fail at most MaxPubFails times, nothing else
\* ends a session; there is no inbound traffic.
NextRequeue ==
    \/ AcqSkip
    \/ AcqCycle(MaxSamples)
    \/ AcqCycleBeyond(MaxSamples)
    \/ PubWait
    \/ PubDrain
    \/ WifiUp
    \/ MqttWifiUp
    \/ MqttTcpConnectErr
    \/ MqttScheduleConnectErr
    \/ MqttTcpConnected
    \/ MqttWaitForConnectErr
    \/ MqttWaitForConnectOk
    \/ MqttBackoffElapsed
    \/ MqttReceive(MaxSamples)
    \/ MqttBurst(MaxSamples)

SpecRequeue ==
    /\ Init
    /\ [][NextRequeue]_vars
    /\ Fairness
    /\ WF_vars(AcqSkip)
    /\ WF_vars(AcqCycle(MaxSamples))
    /\ WF_vars(AcqCycleBeyond(MaxSamples))

\* A session in which commands arrive faster than the executor takes them,
\* up to MaxFloodCmds of them; a restart ends the run.
NextFlood ==
    \/ WifiUp
    \/ MqttWifiUp
    \/ MqttTcpConnected
    \/ MqttWaitForConnectOk
    \/ MqttPollIoUpTo(MaxFloodCmds)
    \/ CommandExecution

SpecFlood == Init /\ [][NextFlood]_vars

\* A broker that never answers: it may accept the TCP connection, and then
\* sends nothing.  What the peer does is not subject to fairness, what the
\* tasks and their timers do is.  The peer accepts at most MaxFails
\* connections.
MqttTcpAccepted == fails < MaxFails /\ MqttTcpConnected

NextStalled ==
    \/ AcqSkip
    \/ AcqCycle(MaxSamples)
    \/ PubWait
    \/ PubDrain
    \/ WifiUp
    \/ MqttWifiUp
    \/ MqttTcpAccepted
    \/ MqttConnackPoll
    \/ MqttConnackDeadline
    \/ MqttBackoffElapsed

SpecStalled ==
    /\ Init
    /\ [][NextStalled]_vars
    /\ WF_vars(PubWait)
    /\ WF_vars(PubDrain)
    /\ WF_vars(WifiUp)
    /\ WF_vars(MqttWifiUp)
    /\ WF_vars(MqttConnackPoll)
    /\ WF_vars(MqttConnackDeadline)
    /\ WF_vars(MqttBackoffElapsed)

\* The acquisition loop and the publisher, with measurements of any length
\* and any of the sensors failing.
NextAcq ==
    \/ AcqSkipIn(MeasureTimes)
    \/ AcqCycleIn(MaxAcqSamples, MeasureTimes, SUBSET Sensors)
    \/ PubWait
    \/ PubDrain

SpecAcq == Init /\ [][NextAcq]_vars

InSession == mpc \in {"connected", "burst"}

SessionFaults == {"timer_err", "poll_err", "disconnected",
                  "publish_first_fail", "publish_burst_fail"}

\* no connect failure, no session fault and no publish error so far
FaultFree == ~DOWN /\ delay = 0 /\ pubFails = 0

HeldSeq == IF ppc = "send" THEN <<held>> ELSE <<>>

\* ---------------------------------------------------------------- claims

\* C1: the delay waited after the N-th consecutive connect failure (counted
\* from start-up or from the last CONNECT acknowledgement) is
\* min(2^(N-1), 30) seconds, and backoff only holds 1, 2, 4, 8, 16 or 30.
C1_BackoffDelay ==
    /\ backoff \in {1, 2, 4, 8, 16, 30}
    /\ fails >= 1 => delay = Min(Pow2(fails - 1), 30)
    /\ mpc = "backoff" => delay = backoff

C1_Witness == mpc = "backoff" /\ READY /\ fails = 7 /\ delay = 30

\* C2: backoff goes back to 1 exactly in the step in which wait_for_connect
\* returned Ok; no other step lowers it.
C2_ResetOnlyAtConnack ==
    [][/\ (mpc = "mqtt_connecting" /\ mpc' = "connected") => backoff' = 1
       /\ backoff' < backoff =>
            (mpc = "mqtt_connecting" /\ mpc' = "connected" /\ ev' = "connack")]_vars

C2_Witness == mpc = "connected" /\ ev = "connack" /\ backoff = 1 /\ delay >= 2

\* C3 (as claimed): with no dequeue in between, the first 64 enqueues into
\* the empty Sample Queue all succeed.
C3_Capacity64 ==
    (deqLog = <<>> /\ clock - 1 <= 64) => Len(enqLog) = clock - 1

\* C4: an enqueue into a full Sample Queue fails, returns the sample, leaves
\* the queue as it was; the acquisition loop drops the sample and goes on.
C4_FullEnqueueRejected ==
    [][(skip = 0 /\ clock' = clock + 1 /\ Len(queue) = QueueCapacity) =>
          /\ Enqueue(queue, clock) = [ok |-> FALSE, q |-> queue, rejected |-> clock]
          /\ queue' = queue
          /\ enqLog' = enqLog
          /\ dropped' = Append(dropped, clock)
          /\ skip' = 0]_vars

C4_Witness == Len(dropped) >= 2 /\ Len(queue) = QueueCapacity

\* C5: the samples dequeue returned are a prefix of the samples enqueued
\* successfully, in the same order, and what is enqueued and not yet
\* dequeued is the queue; dequeue on the empty queue returns none and
\* leaves it empty.
C5_Fifo ==
    /\ IsPrefix(deqLog, enqLog)
    /\ enqLog = deqLog \o queue
    /\ queue = <<>> => (~Dequeue(queue).some /\ Dequeue(queue).q = <<>>)

C5_Witness ==
    /\ Len(deqLog) >= 10
    /\ requeued # <<>>
    /\ queue # <<>>

\* C6 (as claimed): every successful enqueue, by the acquisition loop or by
\* publish_sample, leaves HAS_DATA signalled.
C6_SignalOnEveryEnqueue ==
    [][Len(enqLog') > Len(enqLog) => HAS_DATA']_vars

\* C7: a failed publish pushes the sample back: with free capacity it is at
\* the back of the queue afterwards, with a full queue it is lost and the
\* queue is unchanged; either way DOWN is signalled and the session ends.
C7_PushBack ==
    [][pubFails' # pubFails =>
          /\ chan # <<>> /\ chan' = Tail(chan)
          /\ Len(queue) < QueueCapacity =>
                (queue' = Append(queue, Head(chan)) /\ lost' = lost)
          /\ Len(queue) = QueueCapacity =>
                (queue' = queue /\ lost' = Append(lost, Head(chan)))
          /\ DOWN' /\ mpc' = "wifi_wait"]_vars

C7_Witness == lost # <<>> /\ requeued # <<>> /\ mpc = "wifi_wait"

\* C8: in the Connected loop every fault (timer error, poll error,
\* Disconnected event, publish failure of the first sample or in the burst)
\* signals DOWN and leads to the Wi-Fi wait, and nothing else leaves the
\* Connected loop.
C8_FaultsLeaveConnected ==
    [][/\ InSession' => ev' \notin SessionFaults
       /\ (InSession /\ ~InSession') =>
            (DOWN' /\ mpc' = "wifi_wait" /\ ev' \in SessionFaults)]_vars

C8_Witness == mpc = "wifi_wait" /\ DOWN /\ ev = "publish_burst_fail"

\* C9: mqtt_loop never stops: whenever it is not in the Connected loop it
\* gets there again.
C9_AlwaysRecovers == [](~InSession => <>(mpc = "connected"))

C9_Witness == mpc = "connected" /\ ev = "connack" /\ DOWN /\ delay = 30

\* C10: without faults nothing is lost, duplicated or reordered between the
\* acquisition loop and the broker, and every enqueued sample gets published.
Conservation ==
    /\ enqLog = [i \in 1..(clock - 1) |-> i]
    /\ enqLog = published \o chan \o HeldSeq \o queue

C10_ExactlyOnce ==
    /\ [](FaultFree /\ Conservation)
    /\ \A s \in 1..MaxFlowSamples :
          [](s \in SeqToSet(enqLog) => <>(s \in SeqToSet(published)))

C10_Witness == FaultFree /\ Len(published) = MaxFlowSamples /\ mpc = "connected"

\* C11: the samples published since the last CONNACK are, in the same order
\* and with none left out in between, the samples dequeue returned last
\* before the ones still in the publish channel -- a consecutive run of the
\* samples in their order of enqueueing, whatever was pushed back before.
C11_SessionOrder ==
    LET n == Len(sessionPub)
        taken == Len(published) + pubFails
    IN InSession =>
          /\ n <= taken
          /\ taken <= Len(deqLog)
          /\ sessionPub = SubSeq(deqLog, taken - n + 1, taken)
          /\ IsPrefix(deqLog, enqLog)

C11_Witness ==
    /\ InSession
    /\ Len(sessionPub) >= PUBLISH_BURST + 2
    /\ requeued # <<>>

\* C12: Command::try_from returns RebootToReconfigure exactly for the
\* payload of the one byte 48; the empty payload, every longer payload and
\* every other single byte give the error.
C12_ParseExactlyOne ==
    ret.fn = "try_from" =>
        /\ ret.val.ok <=> (Len(call.arg) = 1 /\ call.arg[1] = 48)
        /\ ret.val.ok => ret.val.val = "RebootToReconfigure"
        /\ ~ret.val.ok => ret.val.val = "CannotConvertPayload"

C12_Witness ==
    /\ ret.fn = "try_from"
    /\ call.arg = <<48>>
    /\ ret.val = [ok |-> TRUE, val |-> "RebootToReconfigure"]

\* C13: the Command Channel grows only by the command of an inbound publish
\* on this device's command topic with the payload <<48>>; any other
\* inbound publish leaves the channel, the Connected loop and DOWN alone.
C13_OnlyValidCommands ==
    [][/\ Len(cmdq') > Len(cmdq) =>
            /\ msg'.topic = <<"sensors/command", ClientId>>
            /\ msg'.payload = <<48>>
            /\ cmdq' = Append(cmdq, "RebootToReconfigure")
       /\ (/\ msg' # NoMsg
           /\ ~(msg'.topic = <<"sensors/command", ClientId>> /\ msg'.payload = <<48>>)) =>
            /\ cmdq' = cmdq
            /\ mpc = "connected" /\ mpc' = "connected"
            /\ DOWN' = DOWN
            /\ ev' \in {"received_malformed", "received_other_topic"}]_vars

C13_Witness ==
    /\ msg = [topic |-> <<"sensors/command", ClientId>>, payload |-> <<49>>]
    /\ ev = "received_malformed"
    /\ mpc = "connected"
    /\ ~DOWN
    /\ cmdq = <<"RebootToReconfigure">>

\* the reconfigure flag is stored as set
FlagStored(db) == db[SYSTEM_REBOOT_TO_RECONFIGURE] = Some(<<1>>)

\* C14 (as claimed): every command the executor takes from the Command
\* Channel ends with the flag committed and the device restarting.
C14_EveryCommandRestarts ==
    [][Len(cmdq') < Len(cmdq) => (FlagStored(store') /\ phase' = "boot")]_vars

\* C14 (amended): a command the executor takes from the Command Channel
\* either has the flag committed (the other keys untouched) and the device
\* restarting, with nothing of the executor left, or -- when the write or
\* the commit fails -- leaves the store as it was, and the executor goes on
\* with the rest of the channel.
C14_RestartUnlessStoreFails ==
    [][Len(cmdq') < Len(cmdq) =>
          \/ /\ FlagStored(store')
             /\ \A k \in StringKeys : store'[k] = store[k]
             /\ phase' = "boot"
             /\ cmdq' = <<>>
          \/ /\ store' = store
             /\ phase' = "telemetry"
             /\ cmdq' = Tail(cmdq)
             /\ ret' = [fn |-> "set_reboot", val |-> FALSE]]_vars

C14_Witness ==
    /\ phase = "provisioning"
    /\ cmds = 1
    /\ FlagStored(store)
    /\ cmdq = <<>>

\* C15: transmute of an Optional value with all five required fields is
\* FilledIn with the same five values and the stored flag, or false when
\* there is none; with a required field missing it is the value itself.
C15_TransmuteOptional ==
    (ret.fn = "transmute" /\ call.arg.tag = "Optional") =>
        LET o == call.arg.s IN
        IF /\ o.wifi_ssid # None /\ o.wifi_password # None /\ o.mqtt_broker # None
           /\ o.mqtt_client_id # None /\ o.mqtt_topic # None
        THEN /\ ret.val.tag = "FilledIn"
             /\ ret.val.s.wifi_ssid = o.wifi_ssid[1]
             /\ ret.val.s.wifi_password = o.wifi_password[1]
             /\ ret.val.s.mqtt_broker = o.mqtt_broker[1]
             /\ ret.val.s.mqtt_client_id = o.mqtt_client_id[1]
             /\ ret.val.s.mqtt_topic = o.mqtt_topic[1]
             /\ ret.val.s.reboot_to_reconfigure = (o.reboot_to_reconfigure = Some(TRUE))
        ELSE ret.val = call.arg

C15_Witness ==
    /\ ret.fn = "transmute"
    /\ ret.val.tag = "FilledIn"
    /\ call.arg.s.reboot_to_reconfigure = None
    /\ ~ret.val.s.reboot_to_reconfigure

\* all five required settings are in the store
StoreComplete(db) == \A k \in StringKeys : db[k] # None

\* C16: a boot that does not panic starts the telemetry path exactly when
\* the store holds all five settings and the flag is not set, and the
\* provisioning path otherwise; it starts one of the two.
C16_BootPath ==
    [][(phase = "mounted" /\ phase' # "mounted") =>
          /\ phase' \in {"run", "provisioning", "panic"}
          /\ phase' = "run" =>
                (StoreComplete(store) /\ ~FlagStored(store))
          /\ phase' = "provisioning" =>
                (~StoreComplete(store) \/ FlagStored(store))
          /\ store' = store]_vars

C16_Witness ==
    /\ phase = "provisioning"
    /\ StoreComplete(store)
    /\ FlagStored(store)
    /\ cmds = 0
    /\ ret.fn = "none"

\* the store holds exactly the given settings
StoreHolds(db, settings) ==
    /\ db[WIFI_SSID_KEY] = Some(Utf8Encode(settings.wifi_ssid))
    /\ db[WIFI_PASSWORD_KEY] = Some(Utf8Encode(settings.wifi_password))
    /\ db[MQTT_BROKER_KEY] = Some(Utf8Encode(settings.mqtt_broker))
    /\ db[MQTT_CLIENT_ID_KEY] = Some(Utf8Encode(settings.mqtt_client_id))
    /\ db[MQTT_TOPIC_KEY] = Some(Utf8Encode(settings.mqtt_topic))
    /\ db[SYSTEM_REBOOT_TO_RECONFIGURE] =
           Some(<<IF settings.reboot_to_reconfigure THEN 1 ELSE 0>>)
    /\ GetInitialSettings(db) = [ok |-> TRUE, val |-> [tag |-> "FilledIn", s |-> settings]]

\* C17: the store changes in provisioning only by a save_settings that
\* returns Ok, and then to exactly the six given values; a save_settings
\* that returns an error changes none of them.
C17_SaveAtomic ==
    /\ []((phase = "provisioning" /\ ret.fn = "save_settings" /\ ret.val) =>
              StoreHolds(store, call.arg))
    /\ [][(phase = "provisioning" /\ store' # store) =>
              /\ ret'.fn = "save_settings"
              /\ ret'.val
              /\ StoreHolds(store', call'.arg)]_vars

C17_Witness ==
    /\ phase = "provisioning"
    /\ NEED_REBOOT
    /\ ret.fn = "save_settings"
    /\ ~ret.val
    /\ ~StoreHolds(store, call.arg)

\* the six buckets with the edges 50, 150, 175, 200 and 300
Bucket(score) ==
    CASE score < 50 -> "Good"
      [] score >= 50 /\ score < 150 -> "Moderate"
      [] score >= 150 /\ score < 175 -> "UnhealthyForSensitiveGroups"
      [] score >= 175 /\ score < 200 -> "Unhealthy"
      [] score >= 200 /\ score < 300 -> "VeryUnhealthy"
      [] score >= 300 -> "Hazardous"

\* C18: the category is the bucket of the score, for aiq_from_score on
\* every score and for what calculate returns.
C18_CategoryBuckets ==
    /\ ret.fn = "aiq_from_score" => ret.val = Bucket(call.arg)
    /\ ret.fn = "calculate" => ret.val.category = Bucket(ret.val.score)

C18_Witness ==
    /\ ret.fn = "aiq_from_score"
    /\ call.arg = 300
    /\ ret.val = "Hazardous"

\* C19: calculate, for a humidity of 0 to 100 percent and any gas
\* resistance, stays within the u32 range in every operation, divides by a
\* non-zero number, and returns the sum of the two sub-scores, which lies
\* between 0 and 500.
C19_ScoreInRange ==
    ret.fn = "calculate" =>
        /\ ret.val.ok
        /\ ret.val.score = ret.val.hum_score + ret.val.gas_score
        /\ ret.val.score >= 0 /\ ret.val.score <= 500

C19_Witness ==
    /\ ret.fn = "calculate"
    /\ call.arg.humidity = 100 * HumScale
    /\ call.arg.gas = [hi |-> 65535, lo |-> 65535]
    /\ ret.val.ok
    /\ ret.val.score = 141

\* C20 (as claimed): the payload has the key "ts" and one key for every
\* field of the Sample that is present, and no key twice.
C20_PayloadKeys ==
    ret.fn = "build_payload" =>
        LET keys == {ret.val[i][1] : i \in 1..Len(ret.val)}
            present == {f \in SampleFields : call.arg[f] # None}
        IN /\ "ts" \in keys
           /\ Len(ret.val) = Cardinality(keys)
           /\ Cardinality(keys) = 1 + Cardinality(present)

\* C21 (as claimed): mqtt_loop leaves TcpConnecting and MqttConnecting again,
\* whatever the peer does.
C21_ConnectAttemptsBounded ==
    [](mpc \in {"tcp_connecting", "mqtt_connecting"} =>
          <>(mpc \notin {"tcp_connecting", "mqtt_connecting"}))

\* the wait for the CONNECT acknowledgement on its own: it ends in a connect
\* failure within the deadline and one more poll timeout
ConnackWaitBounded ==
    /\ [](mpc = "mqtt_connecting" => waited < CONNECT_TIMEOUT_SECS + IO_POLL_TIMEOUT_SECS)
    /\ [](mpc = "mqtt_connecting" => <>(mpc = "backoff" /\ ev = "connack_timeout"))

\* C22 (as claimed): a protocol poll of the Connected loop that ran into its
\* timeout has signalled DOWN and has taken mqtt_loop out of the Connected
\* loop, as a poll error does.
C22_PollTimeoutEndsSession ==
    ev = "none" => (DOWN /\ mpc = "wifi_wait")

\* C23 (as claimed): at most PUBLISH_BURST = 4 samples are published after
\* one wake of the Connected loop on the publish channel.
C23_BurstLimit ==
    wakePub <= 4

C25_AbandonedReceive ==
    [][/\ Len(chan') < Len(chan) =>
            /\ chan' = Tail(chan)
            /\ \/ published' = Append(published, Head(chan))
               \/ pubFails' = pubFails + 1
       /\ (ev' # ev /\ ev' \in BenignEvents \cup ReceivedEvents \cup FaultEvents) =>
            chan' = chan]_vars

C25_Witness ==
    /\ ev \in BenignEvents
    /\ mpc = "connected"
    /\ chan # <<>>
    /\ published # <<>>

\* C26: mqtt_loop gets to the TCP connect only from the Wi-Fi wait, with UP
\* signalled, and takes the signal in that step; a connect failure (after
\* its backoff) and a session fault lead to the Wi-Fi wait, and only the
\* Wi-Fi task sets the signal again.
C26_WifiUpPerCycle ==
    [][/\ (mpc # "tcp_connecting" /\ mpc' = "tcp_connecting") =>
            (mpc = "wifi_wait" /\ UP /\ ~UP')
       /\ (mpc = "backoff" /\ mpc' # "backoff") => mpc' = "wifi_wait"
       /\ (mpc \in {"tcp_connecting", "mqtt_connecting"} /\ ev' \in
              {"tcp_err", "sched_err", "connack_timeout", "connack_disconnected",
               "connack_poll_err"} /\ ev' # ev) => mpc' = "backoff"
       /\ (InSession /\ ~InSession') => mpc' = "wifi_wait"
       /\ (~UP /\ UP') => mpc' = mpc]_vars

C26_Witness ==
    /\ mpc = "tcp_connecting"
    /\ ~UP
    /\ fails >= 1
    /\ DOWN

\* C27: the loop starts with 10 warm-up cycles to go; while one is left
\* nothing has been enqueued or signalled, and a warm-up cycle enqueues and
\* signals nothing; every cycle after them makes one enqueue attempt (the
\* sample is in the queue or dropped) and signals HAS_DATA, whichever
\* sensors answered.
C27_WarmUpThenEveryCycle ==
    /\ skip = 10
    /\ [](skip > 0 =>
            (clock = 1 /\ enqLog = <<>> /\ dropped = <<>> /\ queue = <<>> /\ ~HAS_DATA))
    /\ [][skip' # skip =>
            /\ skip' = skip - 1
            /\ clock' = clock
            /\ enqLog' = enqLog /\ dropped' = dropped /\ queue' = queue
            /\ HAS_DATA' = HAS_DATA]_vars
    /\ [][clock' # clock =>
            /\ skip = 0 /\ skip' = 0
            /\ clock' = clock + 1
            /\ \/ enqLog' = Append(enqLog, clock) /\ dropped' = dropped
               \/ enqLog' = enqLog /\ dropped' = Append(dropped, clock)
            /\ HAS_DATA']_vars

C27_Witness ==
    /\ skip = 0
    /\ clock = 3
    /\ sensed = {}
    /\ enqLog = <<1, 2>>
    /\ HAS_DATA

\* C28 (as claimed): the timer of a warm-up cycle is the period less the
\* time the cycle measured for, as the timer of a steady-state cycle is.
C28_WarmUpHonoursPeriod ==
    (skip < SKIP_INIT /\ clock = 1) => sleep = PERIOD_SECS - took

\* C29 (as claimed): the timer of a steady-state cycle is the period less the
\* time the cycle measured for, and 0 when the cycle measured for longer;
\* the loop goes on.
C29_SleepNeverNegative ==
    clock > 1 =>
        /\ phase = "telemetry"
        /\ sleep = IF took > PERIOD_SECS THEN 0 ELSE PERIOD_SECS - took

Abs(x) == IF x < 0 THEN 0 - x ELSE x

\* C30 (as claimed): the humidity sub-score lies, within 2 points, on the
\* line from 0 at 0 % to 25 at 38 %, is 25 from 38 % to 42 %, lies within 2
\* points on the line from 25 at 42 % to 66 at 100 %, and does not fall when
\* the humidity rises.
C30_PiecewiseLinear ==
    ret.fn = "calculate" =>
        LET h == call.arg.humidity
            score == ret.val.hum_score
        IN /\ h < 38 * HumScale =>
                Abs(score * 38 * HumScale - 25 * h) <= 2 * 38 * HumScale
           /\ (h >= 38 * HumScale /\ h <= 42 * HumScale) => score = 25
           /\ h > 42 * HumScale =>
                Abs((score - 25) * 58 * HumScale - 41 * (h - 42 * HumScale))
                    <= 2 * 58 * HumScale
           /\ h > 0 => Calculate(h - 1, call.arg.gas).hum_score <= score

\* order of two gas resistances given in 16-bit halves
GasLeq(a, b) == a.hi < b.hi \/ (a.hi = b.hi /\ a.lo <= b.lo)

\* C31 (as claimed): the gas sub-score is 0 for a resistance at or below the
\* lower threshold of 5000 ohm, 75 for one at or above the upper threshold
\* of 50000 ohm, lies between 0 and 75 for every resistance, and does not
\* fall when the resistance rises.
C31_GasInterpolation ==
    ret.fn = "calculate" =>
        LET gas == call.arg.gas
            score == ret.val.gas_score
        IN /\ GasLeq(gas, [hi |-> 0, lo |-> GAS_LOWER_LIMIT]) => score = 0
           /\ GasLeq([hi |-> 0, lo |-> GAS_UPPER_LIMIT], gas) => score = 75
           /\ score >= 0 /\ score <= 75
           /\ \A g \in GasValues :
                GasLeq(g, gas) =>
                    Calculate(call.arg.humidity, g).gas_score <= score

\* C32: kv_storage::init formats at most once.  When mount succeeds nothing
\* is formatted, the stored settings stay and the boot goes on; when mount
\* fails the store is formatted exactly once; when that format fails, init
\* returns the error and the boot ends in a panic, which nothing follows.
C32_FormatAtMostOnce ==
    /\ [][(phase = "boot" /\ phase' # "boot") =>
             /\ kv'.formats <= 1
             /\ kv'.mount =>
                   (kv'.formats = 0 /\ store' = store /\ phase' = "mounted")
             /\ ~kv'.mount => kv'.formats = 1
             /\ (~kv'.mount /\ kv'.ok) =>
                   (phase' = "mounted" /\ store' = EmptyStore)
             /\ ~kv'.ok => (~kv'.mount /\ phase' = "panic")]_vars
    /\ [][phase = "panic" => phase' = "panic"]_vars

C32_Witness ==
    /\ phase = "provisioning"
    /\ kv = [mount |-> FALSE, formats |-> 1, ok |-> TRUE]
    /\ store = EmptyStore

\* C33: transmute never reaches unreachable!(): for every Optional value
\* is_complete is true exactly when the five required fields are all there,
\* which is when the if-let chain destructures them.
C33_UnreachableNeverReached ==
    ret.fn = "transmute" =>
        /\ ret.val.tag # "unreachable"
        /\ call.arg.tag = "Optional" =>
              (IsComplete(call.arg.s) <=> ret.val.tag = "FilledIn")

C33_Witness ==
    /\ ret.fn = "transmute"
    /\ call.arg.tag = "Optional"
    /\ IsComplete(call.arg.s)
    /\ call.arg.s.reboot_to_reconfigure = Some(TRUE)
    /\ ret.val.tag = "FilledIn"

\* C34: publisher_loop drops no sample.  The samples it has put into the
\* publish channel are the dequeued ones in dequeue order, less the one
\* send() holds while the channel is full; the channel holds the latest of
\* them; and while send() is suspended nothing is dequeued, the held sample
\* going into the channel before the next dequeue.
C34_PublisherNeverDrops ==
    /\ [](/\ deqLog = sent \o HeldSeq
          /\ Len(chan) <= Len(sent)
          /\ chan = SubSeq(sent, Len(sent) - Len(chan) + 1, Len(sent))
          /\ ppc = "send" => Len(deqLog) > PUBLISH_QUEUE_SIZE)
    /\ [][ppc = "send" =>
             /\ deqLog' = deqLog
             /\ ppc' # "send" => (sent' = Append(sent, held)
                                  /\ chan' = Append(chan, held))]_vars

C34_Witness ==
    /\ ppc = "drain"
    /\ sent = deqLog
    /\ Len(sent) > PUBLISH_QUEUE_SIZE
    /\ Len(chan) = PUBLISH_QUEUE_SIZE
    /\ chan[PUBLISH_QUEUE_SIZE] = sent[Len(sent)]
    /\ queue # <<>>

C36_WifiGateCompletes ==
    [](((mpc = "wifi_wait" /\ (DOWN \/ fails > 0)) =>
           <>(mpc = "tcp_connecting" /\ ev = "wifi_up")))

C36_Witness ==
    /\ mpc = "tcp_connecting"
    /\ ev = "wifi_up"
    /\ DOWN
    /\ fails >= 1
    /\ UP

\* C37: READY is signalled only when the CONNACK has arrived, DOWN only out
\* of the Connected loop; every DOWN follows a READY signalled since the
\* DOWN before it; a failed connect signals neither of them.
C37_ReadyBeforeDown ==
    /\ [](/\ sig = "ready" <=> InSession
          /\ sig = "none" <=> ~READY
          /\ DOWN => READY)
    /\ [][/\ (sig' = "ready" /\ sig # "ready") =>
                (mpc = "mqtt_connecting" /\ mpc' = "connected" /\ ev' = "connack")
          /\ (READY' /\ ~READY) => sig' = "ready"
          /\ (sig' = "down" /\ sig # "down") => (InSession /\ sig = "ready")
          /\ (DOWN' /\ ~DOWN) => (InSession /\ sig = "ready" /\ sig' = "down")
          /\ (InSession /\ ~InSession') => (sig = "ready" /\ sig' = "down")
          /\ (mpc' = "backoff" /\ mpc # "backoff") =>
                (sig' = sig /\ READY' = READY /\ DOWN' = DOWN)]_vars

C37_Witness ==
    /\ sig = "ready"
    /\ DOWN
    /\ mpc = "burst"
    /\ delay >= 2

\* C38: a valid command that arrives while the Command Channel is full is
\* dropped in the step that handles it: the queued commands stay as they
\* are, DOWN is not signalled and mqtt_loop stays in the Connected loop.
C38_FullChannelDropsCommand ==
    [][(Len(cmdq) = SUBSCRIBE_QUEUE_SIZE /\ cmds' = cmds + 1) =>
          /\ cmdq' = cmdq
          /\ mpc = "connected" /\ mpc' = "connected"
          /\ DOWN' = DOWN /\ sig' = sig
          /\ ev' = "received_command"
          /\ phase' = phase]_vars

C38_Witness ==
    /\ phase = "telemetry"
    /\ Len(cmdq) = SUBSCRIBE_QUEUE_SIZE
    /\ cmds = SUBSCRIBE_QUEUE_SIZE + 1
    /\ ret.fn = "none"
    /\ mpc = "connected"
    /\ ev = "received_command"
    /\ ~DOWN

\* the stored broker address is an IPv4 address
StoredBrokerParses(db) ==
    db[MQTT_BROKER_KEY] # None /\ ParseIpv4(db[MQTT_BROKER_KEY][1]).ok

\* C39 (as claimed): on the telemetry path, a stored broker address that is
\* no IPv4 address ends with the reconfigure flag stored and the device
\* restarting.
C39_BadAddressRestarts ==
    [][(phase = "run" /\ phase' # "run" /\ ~StoredBrokerParses(store)) =>
          (FlagStored(store') /\ phase' = "boot")]_vars

\* C39 (amended): on the telemetry path, once the link and the IPv4
\* configuration are up, a stored broker address that is no IPv4 address
\* makes run call set_reboot: either the flag is committed (the other keys
\* untouched) and the device restarts, or -- when the write or the commit
\* fails -- the store stays as it was and run panics in unwrap.  The tasks
\* of the telemetry path are spawned only with an address that parses, and
\* a boot that finds the flag stored does not take the telemetry path.
C39_BadAddressRestartsOrPanics ==
    /\ [][(phase = "run" /\ phase' # "run") =>
             IF StoredBrokerParses(store)
             THEN phase' = "telemetry" /\ store' = store
             ELSE \/ /\ FlagStored(store')
                     /\ \A k \in StringKeys : store'[k] = store[k]
                     /\ phase' = "boot"
                  \/ /\ store' = store
                     /\ phase' = "panic"]_vars
    /\ [](phase = "telemetry" => StoredBrokerParses(store))
    /\ [][(phase = "mounted" /\ FlagStored(store)) => phase' # "run"]_vars

C39_Witness ==
    /\ phase = "boot"
    /\ kv.ok
    /\ cmds = 0
    /\ StoreComplete(store)
    /\ store[MQTT_BROKER_KEY] = Some(WriteString(BadBroker))
    /\ FlagStored(store)

\* C40 (as claimed): for a reply of at least 48 bytes sync_time returns the
\* NTP seconds of bytes 40..43 less 2208988800, without an unsigned
\* underflow and without a panic; a reply below 48 bytes is an error that
\* leaves the stored time state as it was.
C40_NtpToUnixSeconds ==
    ret.fn = "sync_time" =>
        LET secs == U32FromBeBytes(SubSeq(call.arg.recv_buf, 41, 44))
            r == ret.val.result
        IN IF call.arg.size >= 48
           THEN /\ r.tag = "Ok"
                /\ ~r.underflow
                /\ ~U32Less(secs, NTP_UNIX_OFFSET)
                /\ r.val = U32WrappingSub(secs, NTP_UNIX_OFFSET)
           ELSE /\ r.tag = "Err"
                /\ ret.val.state = call.arg.state

====
